---- MODULE Spec2Model ----
(***************************************************************************)
(* A model of cypy's in-memory graph store (cypy/graph/store.py and its    *)
(* earlier generation cypy/data/store.py, cypy/data/values.py): the two    *)
(* primary maps, the three derived indices, the batch mutations of         *)
(* MutableGraphStore, the ReactiveSet label sets, the shared read          *)
(* algorithm of GraphStore and the FrozenGraphStore snapshot.              *)
(***************************************************************************)
EXTENDS Integers, Sequences, FiniteSets, TLC

VARIABLES
    nodes,                  \* _nodes: node id -> NodeEntry(labels, properties)
    relationships,          \* _relationships: id -> RelationshipEntry(type, nodes, properties)
    nodes_by_label,         \* _nodes_by_label: label -> set of node ids
    relationships_by_type,  \* _relationships_by_type: type -> set of relationship ids
    relationships_by_node,  \* _relationships_by_node: node id -> set of <<relationship id, role>>
    nextNode,               \* the next value new_node_id() hands out
    nextRel,                \* the next value new_relationship_id() hands out
    frozen,                 \* the FrozenGraphStore taken from the store, or NoStore
    last,                   \* the call that produced this state and its outcome
    pc, lock, held, job,    \* threads of the concurrent specification
    rset,                   \* a ReactiveSet of its own, with recording callbacks
    pdict,                  \* a PropertyDict of its own
    copy,                   \* the MutableGraphStore constructed from the store, or NoStore
    handle                  \* the label set of a removed node that a caller kept, or NoHandle

vars == <<nodes, relationships, nodes_by_label, relationships_by_type,
          relationships_by_node, nextNode, nextRel, frozen, last, pc, lock, held, job,
          rset, pdict, copy, handle>>

storeVars == <<nodes, relationships, nodes_by_label, relationships_by_type,
               relationships_by_node>>

threadVars == <<pc, lock, held, job>>

objVars == <<rset, pdict, copy, handle>>

----------------------------------------------------------------------------
(* Bounds of the model *)

MaxNodes == 2       \* node ids handed out in one behaviour
MaxRels == 2        \* relationship ids handed out in one behaviour
MaxBatch == 2       \* entries in one add_nodes batch
MaxArity == 3       \* endpoints of one relationship, positions of one query
QueryIds == 3       \* ids that occur as endpoints where the queries are checked
SnapNodes == 1      \* node ids handed out where a snapshot is kept
SnapRels == 1       \* relationship ids handed out where a snapshot is kept
MaxLabelArgs == 2   \* labels given to nodes() and node_count()
MaxThreads == 2     \* threads that call the batch methods of one store
ConcNodes == 2      \* node ids handed out where threads interleave
ConcRels == 1       \* relationship ids handed out where threads interleave
MaxElements == 3    \* elements a ReactiveSet of its own may hold
MaxItems == 2       \* items in the argument of PropertyDict.update

Labels == {"X", "Y"}
Types == {"KNOWS", "LIKES"}
Keys == {"k"}
KeyOrder == <<"k">>          \* the keys in sorted() order

LAST == -1          \* the role of the last endpoint
NoneId == 0         \* None in an endpoints argument
NoType == "None"    \* r_type=None

NodeIds == 1..MaxNodes
Elements == 1..MaxElements
RelIds == 1..MaxRels

----------------------------------------------------------------------------
(* Python dict and set primitives *)

EmptyDict == [x \in {} |-> {}]

DictGet(d, k, default) == IF k \in DOMAIN d THEN d[k] ELSE default

DictSet(d, k, v) == [x \in DOMAIN d \cup {k} |-> IF x = k THEN v ELSE d[x]]

DictDel(d, k) == [x \in DOMAIN d \ {k} |-> d[x]]

DictUpdate(d, e) == [x \in DOMAIN d \cup DOMAIN e |-> IF x \in DOMAIN e THEN e[x] ELSE d[x]]

\* F(v), with v evaluated once
Bind(v, F(_)) == CHOOSE out \in {F(x) : x \in {v}} : TRUE

Min(S) == CHOOSE x \in S : \A y \in S : x <= y

Range(s) == {s[i] : i \in DOMAIN s}

----------------------------------------------------------------------------
(* Values and the two coercion policies (cypy/data/values.py) *)

Null == [kind |-> "null"]
BoolV(b) == [kind |-> "bool", v |-> b]
\* An integer base + off, base one of 0, 2^63, -2^63, 2^64, -2^64 (by name) and
\* off small, so that the 64-bit range check is exact without wide arithmetic.
IntV(base, off) == [kind |-> "int", base |-> base, off |-> off]
FloatV(x) == [kind |-> "float", v |-> x]
StrV(s) == [kind |-> "str", v |-> s]
BytesV(s) == [kind |-> "bytes", v |-> s]
ListV(items) == [kind |-> "list", v |-> items]
MapV(pairs) == [kind |-> "map", v |-> pairs]
ObjectV == [kind |-> "object"]

Value == [name |-> "Value", nullable |-> TRUE]
PropertyValue == [name |-> "PropertyValue", nullable |-> FALSE]

Ok(x) == [ok |-> TRUE, val |-> x]
Err(e) == [ok |-> FALSE, err |-> e]

\* (-2 ** 63) <= value < (2 ** 63)
IntInRange(i) ==
    CASE i.base = "0" -> TRUE
      [] i.base = "2^63" -> i.off < 0
      [] i.base = "-2^63" -> i.off >= 0
      [] OTHER -> FALSE

\* type(item) of a coerced item
TypeOf(v) == v.kind

RECURSIVE coerce(_, _)
RECURSIVE coerce_items(_, _, _)
RECURSIVE coerce_pairs(_, _, _)

\* Value.coerce_list: list(map(cls.coerce, value))
coerce_items(cls, items, acc) ==
    IF items = <<>> THEN Ok(acc)
    ELSE LET r == coerce(cls, Head(items))
         IN IF r.ok THEN coerce_items(cls, Tail(items), Append(acc, r.val)) ELSE r

\* PropertyValue.coerce_list: primitive items of one type
coerce_list_homogenous(cls, items) ==
    LET RECURSIVE scan(_)
        \* the loop coerces item i, then checks that it is primitive, then that
        \* its type is the type of the first item
        scan(i) ==
            IF i > Len(items) THEN Ok(<<>>)
            ELSE LET c == coerce(cls, items[i])
                 IN IF ~c.ok THEN c
                    ELSE IF c.val.kind \notin {"bool", "float", "bytes", "str", "int"}
                         THEN Err("ValueError")
                    ELSE IF i > 1 /\ TypeOf(c.val) # TypeOf(coerce(cls, items[1]).val)
                         THEN Err("ValueError")
                    ELSE LET rest == scan(i + 1)
                         IN IF rest.ok THEN Ok(<<c.val>> \o rest.val) ELSE rest
    IN scan(1)

\* Value.coerce_map: {cls.coerce(key): cls.coerce(value) for key, value in value.items()}
coerce_pairs(cls, pairs, acc) ==
    IF pairs = <<>> THEN Ok(acc)
    ELSE LET k == coerce(cls, Head(pairs)[1])
             v == coerce(cls, Head(pairs)[2])
         IN IF ~k.ok THEN k
            ELSE IF ~v.ok THEN v
            ELSE coerce_pairs(cls, Tail(pairs), Append(acc, <<k.val, v.val>>))

coerce_list(cls, value) ==
    IF cls.name = "PropertyValue"
    THEN LET r == coerce_list_homogenous(cls, value.v)
         IN IF r.ok THEN Ok(ListV(r.val)) ELSE r
    ELSE LET r == coerce_items(cls, value.v, <<>>)
         IN IF r.ok THEN Ok(ListV(r.val)) ELSE r

coerce_map(cls, value) ==
    IF cls.name = "PropertyValue"
    THEN Err("TypeError")
    ELSE LET r == coerce_pairs(cls, value.v, <<>>)
         IN IF r.ok THEN Ok(MapV(r.val)) ELSE r

coerce(cls, value) ==
    CASE value.kind = "null" -> IF cls.nullable THEN Ok(Null) ELSE Err("ValueError")
      [] value.kind = "bool" -> Ok(value)
      [] value.kind = "int" -> IF IntInRange(value) THEN Ok(value) ELSE Err("ValueError")
      [] value.kind = "float" -> Ok(value)
      [] value.kind = "str" -> Ok(value)
      [] value.kind = "bytes" -> Ok(StrV(value.v))
      [] value.kind = "list" -> coerce_list(cls, value)
      [] value.kind = "map" -> coerce_map(cls, value)
      [] OTHER -> Err("TypeError")

\* PropertyDict(iterable): update() assigns every item; None deletes, anything
\* else is stored after value_class.coerce, and value_class is Value.
PropertyDict(iterable) ==
    LET present == {k \in DOMAIN iterable : iterable[k].kind # "null"}
        failing == {k \in present : ~coerce(Value, iterable[k]).ok}
    IN IF failing # {}
       THEN coerce(Value, iterable[CHOOSE k \in failing : TRUE])
       ELSE Ok([k \in present |-> coerce(Value, iterable[k]).val])

\* a mutation of PropertyDict.__setitem__ without the branch for None: the
\* value is coerced and stored, whatever it is
PropertyDict_setitem_plain(d, key, value) ==
    LET c == coerce(Value, value)
    IN IF c.ok THEN Ok(DictSet(d, key, c.val)) ELSE c

\* PropertyDict.__setitem__
PropertyDict_setitem(d, key, value) ==
    IF value.kind = "null" THEN Ok(DictDel(d, key))
    ELSE LET c == coerce(Value, value)
         IN IF c.ok THEN Ok(DictSet(d, key, c.val)) ELSE c

\* a mutation of PropertyDict.__getitem__ that is dict.__getitem__
PropertyDict_getitem_plain(d, key) ==
    IF key \in DOMAIN d THEN d[key] ELSE [kind |-> "KeyError"]

\* PropertyDict.__getitem__: dict.get(self, key)
PropertyDict_getitem(d, key) == DictGet(d, key, Null)

\* del d[key]: PropertyDict inherits dict.__delitem__
PropertyDict_delitem(d, key) ==
    IF key \in DOMAIN d THEN Ok(DictDel(d, key)) ELSE Err("KeyError")

\* a mutation of PropertyDict.setdefault that stores a given default also
\* over a value the key has
PropertyDict_setdefault_overwriting(d, key, default) ==
    IF default.kind = "null" THEN [dict |-> d, ret |-> PropertyDict_getitem(d, key)]
    ELSE [dict |-> DictSet(d, key, default), ret |-> default]

\* PropertyDict.setdefault: the container it leaves and the value it returns
PropertyDict_setdefault(d, key, default) ==
    IF key \in DOMAIN d THEN [dict |-> d, ret |-> PropertyDict_getitem(d, key)]
    ELSE IF default.kind = "null" THEN [dict |-> d, ret |-> Null]
    ELSE [dict |-> DictSet(d, key, default), ret |-> default]

RECURSIVE PropertyDict_update(_, _)
\* PropertyDict.update: self[key] = value for each item, in the order of the
\* items; items is the sequence of the <<key, value>> of dict(iterable).
\* The container it leaves, and the error that stopped it if one did.
PropertyDict_update(d, items) ==
    IF items = <<>> THEN [ok |-> TRUE, dict |-> d, err |-> ""]
    ELSE Bind(PropertyDict_setitem(d, Head(items)[1], Head(items)[2]),
              LAMBDA r : IF r.ok THEN PropertyDict_update(r.val, Tail(items))
                         ELSE [ok |-> FALSE, dict |-> d, err |-> r.err])

\* Record.__getitem__ with an integer key (a Python index, from 0); a record
\* is its tuple of keys and its tuple of values
Record_getitem_index(cls, rec, key) ==
    LET size == Len(rec.values)
    IN IF (0 <= key /\ key < size) \/ cls.nullable
       THEN \* tuple.__getitem__: negative indices count from the end
            IF 0 <= key /\ key < size THEN Ok(rec.values[key + 1])
            ELSE IF -size <= key /\ key < 0 THEN Ok(rec.values[size + key + 1])
            ELSE Err("IndexError")
       ELSE Ok(Null)

\* a mutation of Record.__getitem__ that raises KeyError for a key the record
\* does not have, whatever the policy
Record_getitem_key_raising(cls, rec, key) ==
    LET found == {i \in DOMAIN rec.keys : rec.keys[i] = key}
    IN IF found # {} THEN Record_getitem_index(cls, rec, Min(found) - 1)
       ELSE Err("KeyError")

\* Record.__getitem__ with a string key: self.__keys.index(key), then the
\* lookup by index; a key that is not there raises KeyError under a nullable
\* policy and gives None under a policy that is not
Record_getitem_key(cls, rec, key) ==
    LET found == {i \in DOMAIN rec.keys : rec.keys[i] = key}
    IN IF found # {} THEN Record_getitem_index(cls, rec, Min(found) - 1)
       ELSE IF cls.nullable THEN Err("KeyError")
       ELSE Ok(Null)

\* PropertyRecord(iterable): the non-null items sorted by key, each value
\* through PropertyValue.coerce.
PropertyRecord(iterable) ==
    LET present == {k \in DOMAIN iterable : iterable[k].kind # "null"}
        keys == SelectSeq(KeyOrder, LAMBDA k : k \in present)
        failing == {i \in DOMAIN keys : ~coerce(PropertyValue, iterable[keys[i]]).ok}
    IN IF failing # {}
       THEN coerce(PropertyValue, iterable[keys[Min(failing)]])
       ELSE Ok([keys |-> keys,
                values |-> [i \in DOMAIN keys |-> coerce(PropertyValue, iterable[keys[i]]).val]])

----------------------------------------------------------------------------
(* The store as one value, for the operations that thread it through loops *)

Store == [nodes |-> nodes,
          relationships |-> relationships,
          nodes_by_label |-> nodes_by_label,
          relationships_by_type |-> relationships_by_type,
          relationships_by_node |-> relationships_by_node]

EmptyStore == [nodes |-> EmptyDict,
               relationships |-> EmptyDict,
               nodes_by_label |-> EmptyDict,
               relationships_by_type |-> EmptyDict,
               relationships_by_node |-> EmptyDict]

NoStore == [none |-> TRUE]

SetStore(s) ==
    /\ nodes' = s.nodes
    /\ relationships' = s.relationships
    /\ nodes_by_label' = s.nodes_by_label
    /\ relationships_by_type' = s.relationships_by_type
    /\ relationships_by_node' = s.relationships_by_node

\* enumerate_nodes: <<role, item>> per position, 0-based, the last one LAST
enumerate_nodes(iterable) ==
    LET size == Len(iterable)
        last_ == size - 1
    IN [i \in 1..size |-> <<IF i - 1 = last_ THEN LAST ELSE i - 1, iterable[i]>>]

\* discard_value: drop value from collection[key], and the entry once empty
discard_value(collection, key, value) ==
    IF key \notin DOMAIN collection THEN collection
    ELSE IF collection[key] \ {value} = {} THEN DictDel(collection, key)
    ELSE DictSet(collection, key, collection[key] \ {value})

\* node_entry.add_labels, the on_add callback of a node's ReactiveSet
add_labels(nbl, key, labels_) ==
    [l \in DOMAIN nbl \cup labels_ |->
        IF l \in labels_ THEN DictGet(nbl, l, {}) \cup {key} ELSE nbl[l]]

\* node_entry.remove_labels, the on_remove callback of a node's ReactiveSet
remove_labels(nbl, key, labels_) ==
    [l \in DOMAIN nbl |-> IF l \in labels_ THEN nbl[l] \ {key} ELSE nbl[l]]

\* MutableGraphStore.node_entry: the ReactiveSet is constructed first, and its
\* constructor calls on_add on the store's index; then PropertyDict may raise.
node_entry(nbl, key, entry) ==
    LET p == PropertyDict(entry.properties)
    IN [ok |-> p.ok,
        nodes_by_label |-> add_labels(nbl, key, entry.labels),
        entry |-> [labels |-> entry.labels,
                   properties |-> IF p.ok THEN p.val ELSE EmptyDict]]

\* MutableGraphStore.relationship_entry
relationship_entry(entry) ==
    LET p == PropertyDict(entry.properties)
    IN [ok |-> p.ok,
        entry |-> [type |-> entry.type, nodes |-> entry.nodes,
                   properties |-> IF p.ok THEN p.val ELSE EmptyDict]]

RECURSIVE update_nodes(_, _)
\* _update_nodes: every entry goes through node_entry again, bound to this store
update_nodes(s, built) ==
    IF built = <<>> THEN s
    ELSE Bind(node_entry(s.nodes_by_label, Head(built)[1], Head(built)[2]),
              LAMBDA e : Bind([s EXCEPT !.nodes = DictSet(@, Head(built)[1], e.entry),
                                        !.nodes_by_label = e.nodes_by_label],
                              LAMBDA s1 : update_nodes(s1, Tail(built))))

\* _update_nodes_by_label: the buckets are unioned
update_nodes_by_label(s, labels) ==
    [s EXCEPT !.nodes_by_label =
        [l \in DOMAIN @ \cup DOMAIN labels |->
            DictGet(@, l, {}) \cup DictGet(labels, l, {})]]

RECURSIVE add_nodes_loop(_, _, _, _)
\* the loop of add_nodes (before the lock is taken): one id and one node_entry
\* per entry, into the local nodes list
add_nodes_loop(nbl, next, entries, built) ==
    IF entries = <<>>
    THEN [raised |-> FALSE, nodes_by_label |-> nbl, next |-> next, built |-> built]
    ELSE Bind(node_entry(nbl, next, Head(entries)),
              LAMBDA e :
                  IF ~e.ok
                  THEN [raised |-> TRUE, nodes_by_label |-> e.nodes_by_label,
                        next |-> next + 1, built |-> built]
                  ELSE add_nodes_loop(e.nodes_by_label, next + 1, Tail(entries),
                                      Append(built, <<next, e.entry>>)))

\* the local nodes_by_label of add_nodes
local_nodes_by_label(built) ==
    LET ls == UNION {built[i][2].labels : i \in DOMAIN built}
    IN [l \in ls |-> {built[i][1] : i \in {j \in DOMAIN built : l \in built[j][2].labels}}]

\* the locked part of add_nodes
add_nodes_commit(s, built) ==
    Bind(update_nodes(s, built),
         LAMBDA s1 : Bind(local_nodes_by_label(built),
                          LAMBDA labels : update_nodes_by_label(s1, labels)))

\* a mutation of add_nodes whose ids are the lowest ones the store does not
\* hold, in place of new ones
add_nodes_reusing(s, next, entries) ==
    Bind(add_nodes_loop(s.nodes_by_label,
                        Min({i \in 1..next : i \notin DOMAIN s.nodes}), entries, <<>>),
         LAMBDA b :
             Bind([s EXCEPT !.nodes_by_label = b.nodes_by_label],
                  LAMBDA s1 :
                      IF b.raised
                      THEN [raised |-> TRUE, store |-> s1, next |-> next, ret |-> <<>>]
                      ELSE [raised |-> FALSE, store |-> add_nodes_commit(s1, b.built),
                            next |-> IF b.next > next THEN b.next ELSE next,
                            ret |-> [i \in DOMAIN b.built |-> b.built[i][1]]]))

\* MutableGraphStore.add_nodes
add_nodes(s, next, entries) ==
    Bind(add_nodes_loop(s.nodes_by_label, next, entries, <<>>),
         LAMBDA b :
             Bind([s EXCEPT !.nodes_by_label = b.nodes_by_label],
                  LAMBDA s1 :
                      IF b.raised
                      THEN [raised |-> TRUE, store |-> s1, next |-> b.next, ret |-> <<>>]
                      ELSE [raised |-> FALSE, store |-> add_nodes_commit(s1, b.built),
                            next |-> b.next,
                            ret |-> [i \in DOMAIN b.built |-> b.built[i][1]]]))

RECURSIVE discard_roles(_, _, _)
\* the last loop of remove_relationships
\* a mutation of the last loop of remove_relationships that leaves the role
\* buckets as they are
discard_roles_kept(rbn, r_id, roles) == rbn

discard_roles(rbn, r_id, roles) ==
    IF roles = <<>> THEN rbn
    ELSE Bind(discard_value(rbn, Head(roles)[2], <<r_id, Head(roles)[1]>>),
              LAMBDA rest : discard_roles(rest, r_id, Tail(roles)))

\* one iteration of remove_relationships
remove_relationship(s, r_id) ==
    IF r_id \notin DOMAIN s.relationships THEN s
    ELSE LET e == s.relationships[r_id]
         IN [s EXCEPT !.relationships = DictDel(@, r_id),
                      !.relationships_by_type = discard_value(@, e.type, r_id),
                      !.relationships_by_node = discard_roles(@, r_id, enumerate_nodes(e.nodes))]

RECURSIVE remove_relationships(_, _)
\* MutableGraphStore.remove_relationships
remove_relationships(s, r_ids) ==
    IF r_ids = {} THEN s
    ELSE Bind(remove_relationship(s, Min(r_ids)),
              LAMBDA s1 : remove_relationships(s1, r_ids \ {Min(r_ids)}))

\* a mutation of remove_node that leaves the relationships of the node alone
remove_node_alone(s, n_id) ==
    IF n_id \notin DOMAIN s.nodes THEN s
    ELSE [s EXCEPT !.nodes = DictDel(@, n_id)]

RECURSIVE discard_labels(_, _, _)
\* the label loop of remove_nodes
discard_labels(nbl, n_id, n_labels) ==
    IF n_labels = {} THEN nbl
    ELSE LET l == CHOOSE x \in n_labels : TRUE
         IN Bind(discard_value(nbl, l, n_id),
                 LAMBDA rest : discard_labels(rest, n_id, n_labels \ {l}))

\* a mutation of remove_node that removes the relationships attached to an id
\* also when the store holds no node of that id
remove_node_cascading_unknown(s, n_id) ==
    Bind(IF n_id \notin DOMAIN s.nodes THEN s
         ELSE [s EXCEPT !.nodes = DictDel(@, n_id),
                        !.nodes_by_label = discard_labels(@, n_id, s.nodes[n_id].labels)],
         LAMBDA s1 :
             IF n_id \in DOMAIN s1.relationships_by_node
             THEN remove_relationships(s1, {p[1] : p \in s1.relationships_by_node[n_id]})
             ELSE s1)

\* one iteration of remove_nodes
remove_node(s, n_id) ==
    IF n_id \notin DOMAIN s.nodes THEN s
    ELSE Bind([s EXCEPT !.nodes = DictDel(@, n_id),
                        !.nodes_by_label = discard_labels(@, n_id, s.nodes[n_id].labels)],
              LAMBDA s1 :
                  IF n_id \in DOMAIN s1.relationships_by_node
                  THEN remove_relationships(s1, {p[1] : p \in s1.relationships_by_node[n_id]})
                  ELSE s1)

RECURSIVE remove_nodes(_, _)
\* MutableGraphStore.remove_nodes
remove_nodes(s, n_ids) ==
    IF n_ids = {} THEN s
    ELSE Bind(remove_node(s, Min(n_ids)),
              LAMBDA s1 : remove_nodes(s1, n_ids \ {Min(n_ids)}))

\* a mutation of the inner loop of add_relationships that indexes the first and
\* the last endpoint only
index_roles_ends(rbn, r_id, roles) ==
    LET ends == {q \in Range(roles) : q[1] \in {0, LAST}}
    IN [n \in DOMAIN rbn \cup {q[2] : q \in ends} |->
           DictGet(rbn, n, {}) \cup {<<r_id, q[1]>> : q \in {e \in ends : e[2] = n}}]

RECURSIVE index_roles(_, _, _)
\* the inner loop of add_relationships
index_roles_skipped(rbn, r_id, roles) ==
    rbn

index_roles(rbn, r_id, roles) ==
    IF roles = <<>> THEN rbn
    ELSE LET n_id == Head(roles)[2]
         IN Bind(DictSet(rbn, n_id, DictGet(rbn, n_id, {}) \cup {<<r_id, Head(roles)[1]>>}),
                 LAMBDA rest : index_roles(rest, r_id, Tail(roles)))

RECURSIVE add_relationships(_, _, _, _)
\* MutableGraphStore.add_relationships
add_relationships(s, next, entries, r_ids) ==
    IF entries = <<>> THEN [raised |-> FALSE, store |-> s, next |-> next, ret |-> r_ids]
    ELSE Bind(relationship_entry(Head(entries)),
              LAMBDA e :
                  IF ~e.ok
                  THEN [raised |-> TRUE, store |-> s, next |-> next + 1, ret |-> <<>>]
                  ELSE Bind([s EXCEPT !.relationships = DictSet(@, next, e.entry),
                                      !.relationships_by_type =
                                          DictSet(@, e.entry.type,
                                                  DictGet(@, e.entry.type, {}) \cup {next}),
                                      !.relationships_by_node =
                                          index_roles(@, next, enumerate_nodes(e.entry.nodes))],
                            LAMBDA s1 : add_relationships(s1, next + 1, Tail(entries),
                                                          Append(r_ids, next))))

----------------------------------------------------------------------------
(* ReactiveSet (cypy/data/store.py): each mutating operation gives the new   *)
(* contents and the callbacks it invokes, in order                          *)

OnAdd(elements) == [cb |-> "on_add", elements |-> elements]
OnRemove(elements) == [cb |-> "on_remove", elements |-> elements]

Done(set, calls) == [raised |-> FALSE, set |-> set, calls |-> calls]
KeyError(set) == [raised |-> TRUE, set |-> set, calls |-> <<>>]

ReactiveSet_ior(self, other) == Done(self \cup other, <<OnAdd(other \ self)>>)

\* elements = self ^ other
ReactiveSet_iand(self, other) ==
    Done(self \cap other, <<OnRemove((self \ other) \cup (other \ self))>>)

ReactiveSet_isub(self, other) == Done(self \ other, <<OnRemove(self \cap other)>>)

ReactiveSet_ixor(self, other) ==
    Done((self \ other) \cup (other \ self),
         <<OnAdd(other \ self), OnRemove(self \cap other)>>)

ReactiveSet_add(self, element) ==
    IF element \notin self THEN Done(self \cup {element}, <<OnAdd({element})>>)
    ELSE Done(self, <<>>)

ReactiveSet_remove(self, element) ==
    IF element \notin self THEN KeyError(self)
    ELSE Done(self \ {element}, <<OnRemove({element})>>)

\* a mutation of ReactiveSet.discard that calls on_remove whether or not the
\* element was a member
ReactiveSet_discard_unguarded(self, element) ==
    Done(self \ {element}, <<OnRemove({element})>>)

ReactiveSet_discard(self, element) ==
    IF element \in self THEN Done(self \ {element}, <<OnRemove({element})>>)
    ELSE Done(self, <<>>)

\* set.pop() takes an arbitrary element: element is the one it took
ReactiveSet_pop(self, element) ==
    IF self = {} THEN KeyError(self)
    ELSE Done(self \ {element}, <<OnRemove({element})>>)

ReactiveSet_clear(self) == Done({}, <<OnRemove(self)>>)

SetOps == {"ior", "iand", "isub", "ixor"}
ElementOps == {"add", "remove", "discard", "pop"}

\* the operation op of a ReactiveSet with contents self; arg is the other set
\* of a set operation, the element of an element operation
ReactiveSet_apply(op, self, arg) ==
    CASE op = "ior" -> ReactiveSet_ior(self, arg)
      [] op = "iand" -> ReactiveSet_iand(self, arg)
      [] op = "isub" -> ReactiveSet_isub(self, arg)
      [] op = "ixor" -> ReactiveSet_ixor(self, arg)
      [] op = "add" -> ReactiveSet_add(self, arg)
      [] op = "remove" -> ReactiveSet_remove(self, arg)
      [] op = "discard" -> ReactiveSet_discard(self, arg)
      [] op = "pop" -> ReactiveSet_pop(self, arg)
      [] OTHER -> ReactiveSet_clear(self)

RECURSIVE run_callbacks(_, _, _)
\* the callbacks node_entry bound to the set of node key, run on the label index
run_callbacks(nbl, key, calls) ==
    IF calls = <<>> THEN nbl
    ELSE Bind(IF Head(calls).cb = "on_add"
              THEN add_labels(nbl, key, Head(calls).elements)
              ELSE remove_labels(nbl, key, Head(calls).elements),
              LAMBDA rest : run_callbacks(rest, key, Tail(calls)))

----------------------------------------------------------------------------
(* GraphStore: the read algorithm shared by both kinds of store.  A store   *)
(* is a record of the five maps; a result that may be None is <<>> or <<x>>. *)

PyNone == <<>>
Some(x) == <<x>>

SeqArg(q) == [kind |-> "seq", v |-> q]
SetArg(S) == [kind |-> "set", v |-> S]
\* an argument that is neither a Sequence nor a Set: whether it is truthy, and
\* whether it has __iter__ and yields nothing but None (0, 1, {}, {None: 1})
OtherArg(truthy, allNone) == [kind |-> "other", truthy |-> truthy, allNone |-> allNone]

RECURSIVE Intersection(_)
\* reduce(and_operator, sets) of a non-empty list of sets
Intersection(sets) ==
    IF Len(sets) = 1 THEN sets[1] ELSE sets[1] \cap Intersection(Tail(sets))

\* GraphStore.nodes
store_nodes(s, n_labels) ==
    IF n_labels # {}
    THEN IF \E l \in n_labels : l \notin DOMAIN s.nodes_by_label
         THEN {}
         ELSE {n \in UNION {s.nodes_by_label[l] : l \in n_labels} :
                  \A l \in n_labels : n \in s.nodes_by_label[l]}
    ELSE DOMAIN s.nodes

\* a mutation of node_count that counts the bucket of the first label only
node_count_first_label(s, n_labels) ==
    IF n_labels = <<>> THEN Cardinality(DOMAIN s.nodes)
    ELSE Cardinality(DictGet(s.nodes_by_label, n_labels[1], {}))

\* GraphStore.node_count: n_labels is the tuple of the arguments, nodes() takes
\* set(n_labels)
node_count(s, n_labels) ==
    IF n_labels = <<>> THEN Cardinality(DOMAIN s.nodes)
    ELSE IF Len(n_labels) = 1
         THEN Cardinality(DictGet(s.nodes_by_label, n_labels[1], {}))
    ELSE Cardinality(store_nodes(s, Range(n_labels)))

\* GraphStore.node_labels with n_id=None
node_labels_all(s) == DOMAIN s.nodes_by_label

\* a mutation of GraphStore.node_labels that gives an empty set, not None, for
\* an id the store does not hold
node_labels_empty_for_unknown(s, n_id) ==
    IF n_id \notin DOMAIN s.nodes THEN Some({}) ELSE Some(s.nodes[n_id].labels)

\* GraphStore.node_labels
node_labels(s, n_id) ==
    IF n_id \notin DOMAIN s.nodes THEN PyNone ELSE Some(s.nodes[n_id].labels)

\* GraphStore.node_properties
node_properties(s, n_id) ==
    IF n_id \notin DOMAIN s.nodes THEN PyNone ELSE Some(s.nodes[n_id].properties)

\* a mutation of the sequence branch of relationships() that takes the node of
\* a position in any role
sequence_sets_any_role(s, n_ids) ==
    LET given == SelectSeq(n_ids, LAMBDA n : n # NoneId)
    IN [j \in DOMAIN given |->
           {x[1] : x \in DictGet(s.relationships_by_node, given[j], {})}]

\* a mutation of the set branch of relationships() that gives one candidate
\* set, the relationships of any of the nodes
set_sets_any_node(s, n_ids) ==
    IF n_ids \ {NoneId} = {} THEN <<>>
    ELSE <<UNION {{x[1] : x \in DictGet(s.relationships_by_node, n, {})} :
                     n \in n_ids \ {NoneId}}>>

\* the candidate sets of relationships() for an endpoints sequence
sequence_sets(s, n_ids) ==
    LET roles == enumerate_nodes(n_ids)
        given == SelectSeq(roles, LAMBDA p : p[2] # NoneId)
    IN [j \in DOMAIN given |->
           {x[1] : x \in {y \in DictGet(s.relationships_by_node, given[j][2], {}) :
                             y[2] = given[j][1]}}]

RECURSIVE set_sets(_, _)
\* the candidate sets of relationships() for an endpoints set
set_sets(s, n_ids) ==
    IF n_ids = {} THEN <<>>
    ELSE LET n_id == Min(n_ids)
         IN (IF n_id # NoneId
             THEN <<{x[1] : x \in DictGet(s.relationships_by_node, n_id, {})}>>
             ELSE <<>>) \o set_sets(s, n_ids \ {n_id})

\* GraphStore.relationships
store_relationships(s, r_type, n_ids) ==
    LET typed == IF r_type = NoType THEN <<>>
                 ELSE <<DictGet(s.relationships_by_type, r_type, {})>>
        empty == \/ n_ids.kind = "seq" /\ n_ids.v = <<>>
                 \/ n_ids.kind = "set" /\ n_ids.v = {}
                 \/ n_ids.kind = "other" /\ ~n_ids.truthy
        allNone == \/ n_ids.kind = "seq" /\ \A i \in DOMAIN n_ids.v : n_ids.v[i] = NoneId
                   \/ n_ids.kind = "set" /\ \A n \in n_ids.v : n = NoneId
                   \/ n_ids.kind = "other" /\ n_ids.allNone
    IN IF ~(empty \/ allNone) /\ n_ids.kind \notin {"seq", "set"}
       THEN Err("TypeError")
       ELSE LET r_sets == IF empty \/ allNone THEN typed
                          ELSE IF n_ids.kind = "seq" THEN typed \o sequence_sets(s, n_ids.v)
                          ELSE typed \o set_sets(s, n_ids.v)
            IN Ok(IF r_sets # <<>> THEN Intersection(r_sets) ELSE DOMAIN s.relationships)

\* GraphStore.relationship_count
relationship_count(s, r_type, n_ids) ==
    LET empty == \/ n_ids.kind = "seq" /\ n_ids.v = <<>>
                 \/ n_ids.kind = "set" /\ n_ids.v = {}
                 \/ n_ids.kind = "other" /\ ~n_ids.truthy
    IN IF r_type = NoType /\ empty THEN Ok(Cardinality(DOMAIN s.relationships))
       ELSE IF empty THEN Ok(Cardinality(DictGet(s.relationships_by_type, r_type, {})))
       ELSE LET r == store_relationships(s, r_type, n_ids)
            IN IF r.ok THEN Ok(Cardinality(r.val)) ELSE r

\* GraphStore.relationship_nodes
relationship_nodes(s, r_id) ==
    IF r_id \notin DOMAIN s.relationships THEN PyNone ELSE Some(s.relationships[r_id].nodes)

\* GraphStore.relationship_properties
relationship_properties(s, r_id) ==
    IF r_id \notin DOMAIN s.relationships THEN PyNone
    ELSE Some(s.relationships[r_id].properties)

\* GraphStore.relationship_type
relationship_type(s, r_id) ==
    IF r_id \notin DOMAIN s.relationships THEN PyNone ELSE Some(s.relationships[r_id].type)

\* GraphStore.relationship_types
relationship_types(s) == DOMAIN s.relationships_by_type

\* _build_nodes_by_label: the label index a scan of the nodes map gives
build_nodes_by_label(ns) ==
    [l \in UNION {ns[n].labels : n \in DOMAIN ns} |-> {n \in DOMAIN ns : l \in ns[n].labels}]

\* _build_relationships_by_type
build_relationships_by_type(rs) ==
    [t \in {rs[r].type : r \in DOMAIN rs} |-> {r \in DOMAIN rs : rs[r].type = t}]

\* _build_relationships_by_node
build_relationships_by_node(rs) ==
    LET pairs(r) == {<<enumerate_nodes(rs[r].nodes)[i][2], <<r, enumerate_nodes(rs[r].nodes)[i][1]>>>> :
                        i \in DOMAIN rs[r].nodes}
        all == UNION {pairs(r) : r \in DOMAIN rs}
    IN [n \in {p[1] : p \in all} |-> {p[2] : p \in {q \in all : q[1] = n}}]

----------------------------------------------------------------------------
(* FrozenGraphStore.  A frozen label set is a copy, [shared |-> FALSE,      *)
(* val |-> S]; a label set that were the source's own ReactiveSet object     *)
(* would be [shared |-> TRUE, of |-> key] and read through the source.       *)

Copied(S) == [shared |-> FALSE, val |-> S]
SharedWith(key) == [shared |-> TRUE, of |-> key]

\* a mutation of FrozenGraphStore.node_entry that keeps the source's label set
frozen_node_entry_aliased(key, entry) ==
    LET p == PropertyRecord(entry.properties)
    IN [ok |-> p.ok, err |-> IF p.ok THEN "" ELSE p.err,
        entry |-> [labels |-> SharedWith(key),
                   properties |-> IF p.ok THEN p.val ELSE <<>>]]

\* FrozenGraphStore.node_entry, of the entry stored under key:
\* NodeEntry(frozenset(labels), PropertyRecord(properties))
frozen_node_entry(key, entry) ==
    LET p == PropertyRecord(entry.properties)
    IN [ok |-> p.ok, err |-> IF p.ok THEN "" ELSE p.err,
        entry |-> [labels |-> Copied(entry.labels),
                   properties |-> IF p.ok THEN p.val ELSE <<>>]]

\* FrozenGraphStore.relationship_entry:
\* RelationshipEntry(type_, tuple(nodes), PropertyRecord(properties))
frozen_relationship_entry(entry) ==
    LET p == PropertyRecord(entry.properties)
    IN [ok |-> p.ok, err |-> IF p.ok THEN "" ELSE p.err,
        entry |-> [type |-> entry.type, nodes |-> entry.nodes,
                   properties |-> IF p.ok THEN p.val ELSE <<>>]]

\* FrozenGraphStore.__init__ from a store that is not frozen: the entries are
\* converted, the index buckets copied as they are
FrozenGraphStore(s) ==
    LET ne == [n \in DOMAIN s.nodes |-> frozen_node_entry(n, s.nodes[n])]
        re == [r \in DOMAIN s.relationships |-> frozen_relationship_entry(s.relationships[r])]
        badN == {n \in DOMAIN ne : ~ne[n].ok}
        badR == {r \in DOMAIN re : ~re[r].ok}
    IN IF badN # {} THEN Err(ne[Min(badN)].err)
       ELSE IF badR # {} THEN Err(re[Min(badR)].err)
       ELSE Ok([nodes |-> [n \in DOMAIN ne |-> ne[n].entry],
                relationships |-> [r \in DOMAIN re |-> re[r].entry],
                nodes_by_label |-> s.nodes_by_label,
                relationships_by_type |-> s.relationships_by_type,
                relationships_by_node |-> s.relationships_by_node])

RECURSIVE Xor(_, _)
\* a ^ b on integers that are not negative
Xor(a, b) ==
    IF a = 0 THEN b
    ELSE IF b = 0 THEN a
    ELSE (((a % 2) + (b % 2)) % 2) + (2 * Xor(a \div 2, b \div 2))

RECURSIVE XorAll(_)
\* value ^= hash(key) for each key of ids; the hash of an integer is itself
XorAll(ids) ==
    IF ids = {} THEN 0
    ELSE LET id == CHOOSE x \in ids : TRUE
         IN Xor(id, XorAll(ids \ {id}))

\* GraphStore.__hash__, of a store as its readers see it: the keys of the two
\* maps, combined with ^
GraphStore_hash(s) == Xor(XorAll(DOMAIN s.nodes), XorAll(DOMAIN s.relationships))

\* the number a bool, an int or a float is, as base and offset
NumVal(v) ==
    CASE v.kind = "bool" -> <<"0", IF v.v THEN 1 ELSE 0>>
      [] v.kind = "int" -> <<v.base, v.off>>
      [] OTHER -> <<"0", v.v>>

RECURSIVE PyEq(_, _)
\* v == w in Python, of two coerced values: bool, int and float compare by
\* number (True == 1 == 1.0), lists item by item, maps key by key
PyEq(v, w) ==
    IF v.kind \in {"bool", "int", "float"} /\ w.kind \in {"bool", "int", "float"}
    THEN NumVal(v) = NumVal(w)
    ELSE IF v.kind # w.kind THEN FALSE
    ELSE IF v.kind = "list"
         THEN /\ Len(v.v) = Len(w.v)
              /\ \A i \in DOMAIN v.v : PyEq(v.v[i], w.v[i])
    ELSE IF v.kind = "map"
         THEN /\ Len(v.v) = Len(w.v)
              /\ \A i \in DOMAIN v.v : \E j \in DOMAIN w.v :
                     PyEq(v.v[i][1], w.v[j][1]) /\ PyEq(v.v[i][2], w.v[j][2])
    ELSE v = w

\* Record.__eq__: dict(self) == dict(other)
Record_eq(a, b) ==
    /\ Range(a.keys) = Range(b.keys)
    /\ \A i \in DOMAIN a.keys : \A j \in DOMAIN b.keys :
           a.keys[i] = b.keys[j] => PyEq(a.values[i], b.values[j])

\* GraphStore.__eq__, of two frozen stores as their readers see them:
\* self._nodes == other._nodes and self._relationships == other._relationships,
\* two dicts of named tuples
GraphStore_eq(f, g) ==
    /\ DOMAIN f.nodes = DOMAIN g.nodes
    /\ \A n \in DOMAIN f.nodes :
           /\ f.nodes[n].labels = g.nodes[n].labels
           /\ Record_eq(f.nodes[n].properties, g.nodes[n].properties)
    /\ DOMAIN f.relationships = DOMAIN g.relationships
    /\ \A r \in DOMAIN f.relationships :
           /\ f.relationships[r].type = g.relationships[r].type
           /\ f.relationships[r].nodes = g.relationships[r].nodes
           /\ Record_eq(f.relationships[r].properties, g.relationships[r].properties)

\* what a label set of a frozen store holds now
Contents(cell) ==
    IF cell.shared
    THEN IF cell.of \in DOMAIN nodes THEN nodes[cell.of].labels ELSE {}
    ELSE cell.val

\* dict(record): the mapping of the keys of a record to its values
RecordAsDict(rec) ==
    [k \in Range(rec.keys) |-> rec.values[CHOOSE i \in DOMAIN rec.keys : rec.keys[i] = k]]

\* the argument of a constructor or of update: None, a frozen store, a store
\* that is not frozen, or something that is not a store (object(), 0, a dict)
NoneArg == [kind |-> "none"]
NotAStore == [kind |-> "other"]
FrozenArg(f) == [kind |-> "frozen", store |-> f]
MutableArg(s) == [kind |-> "mutable", store |-> s]

\* graph_store._nodes as _update_nodes reads it: the labels of each entry and
\* its properties as a mapping
ArgNodes(arg) ==
    IF arg.kind = "frozen"
    THEN [n \in DOMAIN arg.store.nodes |->
             [labels |-> Contents(arg.store.nodes[n].labels),
              properties |-> RecordAsDict(arg.store.nodes[n].properties)]]
    ELSE arg.store.nodes

\* graph_store._relationships as _update_relationships reads it
ArgRelationships(arg) ==
    IF arg.kind = "frozen"
    THEN [r \in DOMAIN arg.store.relationships |->
             [type |-> arg.store.relationships[r].type,
              nodes |-> arg.store.relationships[r].nodes,
              properties |-> RecordAsDict(arg.store.relationships[r].properties)]]
    ELSE arg.store.relationships

RECURSIVE DictSeq(_)
\* the items of a dict keyed by ids, as a sequence
DictSeq(d) ==
    IF DOMAIN d = {} THEN <<>>
    ELSE LET k == Min(DOMAIN d)
         IN <<<<k, d[k]>>>> \o DictSeq(DictDel(d, k))

\* _update_relationships: every entry goes through relationship_entry
update_relationships(s, rels) ==
    [s EXCEPT !.relationships =
        DictUpdate(@, [r \in DOMAIN rels |-> relationship_entry(rels[r]).entry])]

\* _update_relationships_by_type: the buckets are unioned
update_relationships_by_type(s, by_type) ==
    [s EXCEPT !.relationships_by_type =
        [t \in DOMAIN @ \cup DOMAIN by_type |->
            DictGet(@, t, {}) \cup DictGet(by_type, t, {})]]

\* _update_relationships_by_node: the buckets are unioned
update_relationships_by_node(s, by_node) ==
    [s EXCEPT !.relationships_by_node =
        [n \in DOMAIN @ \cup DOMAIN by_node |->
            DictGet(@, n, {}) \cup DictGet(by_node, n, {})]]

\* the five _update_ steps of update, in their order. dict.update takes the
\* entries one by one: when the PropertyDict of an entry raises, the entries
\* before it are in the map, the label index has the labels of the failing
\* node (its ReactiveSet was built first), and nothing after it has run.
update_steps(s, arg) ==
    LET items == DictSeq(ArgNodes(arg))
        rels == DictSeq(ArgRelationships(arg))
        badN == {i \in DOMAIN items : ~PropertyDict(items[i][2].properties).ok}
        badR == {i \in DOMAIN rels : ~PropertyDict(rels[i][2].properties).ok}
    IN IF badN # {}
       THEN [raised |-> TRUE,
             err |-> PropertyDict(items[Min(badN)][2].properties).err,
             store |-> [update_nodes(s, SubSeq(items, 1, Min(badN) - 1)) EXCEPT
                           !.nodes_by_label = add_labels(@, items[Min(badN)][1],
                                                         items[Min(badN)][2].labels)]]
       ELSE IF badR # {}
       THEN [raised |-> TRUE,
             err |-> PropertyDict(rels[Min(badR)][2].properties).err,
             store |-> update_relationships(
                           update_nodes(s, items),
                           [i \in {rels[j][1] : j \in 1..(Min(badR) - 1)} |->
                               ArgRelationships(arg)[i]])]
       ELSE [raised |-> FALSE,
             err |-> "",
             store |-> Bind(update_nodes(s, items), LAMBDA s1 :
                       Bind(update_relationships(s1, ArgRelationships(arg)), LAMBDA s2 :
                       Bind(update_nodes_by_label(s2, arg.store.nodes_by_label), LAMBDA s3 :
                       Bind(update_relationships_by_type(s3, arg.store.relationships_by_type),
                            LAMBDA s4 :
                       update_relationships_by_node(s4, arg.store.relationships_by_node)))))]

\* a mutation of MutableGraphStore.update without the isinstance test: what
\* is not a store is taken as a store that holds nothing
MutableGraphStore_update_unchecked(s, arg) ==
    IF arg.kind \notin {"frozen", "mutable"}
    THEN [raised |-> FALSE, err |-> "", store |-> s]
    ELSE update_steps(s, arg)

\* MutableGraphStore.update: TypeError for what is not a GraphStore, else the
\* five _update_ steps
MutableGraphStore_update(s, arg) ==
    IF arg.kind \notin {"frozen", "mutable"}
    THEN [raised |-> TRUE, err |-> "TypeError", store |-> s]
    ELSE update_steps(s, arg)

\* MutableGraphStore.__init__: an empty store, updated with the argument
\* unless that is None
MutableGraphStore_init(arg) ==
    IF arg.kind = "none" THEN [raised |-> FALSE, err |-> "", store |-> EmptyStore]
    ELSE MutableGraphStore_update(EmptyStore, arg)

\* FrozenGraphStore.__init__: empty for None, the maps of a frozen store as
\* they are, the converted entries of another store, TypeError for the rest
FrozenGraphStore_init(arg) ==
    CASE arg.kind = "none" -> Ok(EmptyStore)
      [] arg.kind = "frozen" -> Ok(arg.store)
      [] arg.kind = "mutable" -> FrozenGraphStore(arg.store)
      [] OTHER -> Err("TypeError")

\* a mutation of PropertyRecord where an item can be assigned
PropertyRecord_setitem_storing(rec, key, value) ==
    Bind(PropertyRecord([k \in DOMAIN RecordAsDict(rec) \cup {key} |->
                            IF k = key THEN value ELSE RecordAsDict(rec)[k]]),
         LAMBDA p : IF p.ok THEN [ok |-> TRUE, err |-> "", rec |-> p.val]
                    ELSE [ok |-> FALSE, err |-> p.err, rec |-> rec])

\* record[key] = value on a PropertyRecord: a Record is a tuple and defines no
\* item assignment
PropertyRecord_setitem(rec, key, value) ==
    [ok |-> FALSE, err |-> "TypeError", rec |-> rec]

\* del record[key] on a PropertyRecord: no item deletion either
PropertyRecord_delitem(rec, key) ==
    [ok |-> FALSE, err |-> "TypeError", rec |-> rec]

\* Node.__setitem__ of a node viewed in the frozen store f: the assignment is
\* tried on node_properties(id), which is None for an id f does not hold
Node_setitem(f, n_id, key, value) ==
    IF node_properties(f, n_id) = PyNone
    THEN [raised |-> TRUE, err |-> "TypeError", store |-> f]
    ELSE Bind(PropertyRecord_setitem(f.nodes[n_id].properties, key, value),
              LAMBDA r : [raised |-> ~r.ok, err |-> r.err,
                          store |-> [f EXCEPT !.nodes[n_id].properties = r.rec]])

\* Node.__delitem__ of a node viewed in the frozen store f
Node_delitem(f, n_id, key) ==
    IF node_properties(f, n_id) = PyNone
    THEN [raised |-> TRUE, err |-> "TypeError", store |-> f]
    ELSE Bind(PropertyRecord_delitem(f.nodes[n_id].properties, key),
              LAMBDA r : [raised |-> ~r.ok, err |-> r.err,
                          store |-> [f EXCEPT !.nodes[n_id].properties = r.rec]])

\* a mutation of MutableGraphStore.__init__ that keeps the dicts of its
\* argument as its own, the way FrozenGraphStore does for a frozen argument
MutableGraphStore_copy_sharing(src) ==
    [shared |-> TRUE, store |-> EmptyStore]

\* c = MutableGraphStore(src): a store with dicts of its own, filled by update
MutableGraphStore_copy(src) ==
    [shared |-> FALSE, store |-> MutableGraphStore_init(MutableArg(src)).store]

\* a frozen store as its readers see it
View(f) ==
    [f EXCEPT !.nodes = [n \in DOMAIN @ |->
        [labels |-> Contents(@[n].labels), properties |-> @[n].properties]]]

\* the snapshot f, once it is taken
Frozen == View(frozen)

----------------------------------------------------------------------------
(* Inputs *)

NoProps == EmptyDict
IntProps == [k \in Keys |-> IntV("0", 1)]
MapProps == [k \in Keys |-> MapV(<<<<StrV("a"), IntV("0", 1)>>>>)]
BadProps == [k \in Keys |-> ObjectV]

\* property arguments: none, or one no coercion policy accepts
BatchProps == {NoProps, BadProps}
\* property arguments of the full store surface
AllProps == {NoProps, IntProps, MapProps, BadProps}

\* property arguments where a snapshot is kept
SnapProps == {NoProps, IntProps, MapProps}

NodeEntries(props) == [labels : SUBSET Labels, properties : props]

\* the endpoint sequences of at most MaxArity ids out of ids
EndpointSeqs(ids) == UNION {[1..n -> ids] : n \in 0..MaxArity}

RelationshipEntries(ids, props) ==
    [type : Types, nodes : EndpointSeqs(ids), properties : props]

Threads == 1..MaxThreads

\* what a thread is calling: the method, its argument, and the local nodes
\* list of add_nodes
Job(m, arg) == [m |-> m, arg |-> arg, built |-> <<>>]
\* no label set of a removed node is held
NoHandle == [key |-> NoneId, labels |-> {}]

NoJob == Job("none", <<>>)

Called(op, raised, ret, gone) ==
    [op |-> op, raised |-> raised, ret |-> ret, gone |-> gone]

----------------------------------------------------------------------------
(* The sequential store: every call is one step *)

Init ==
    /\ nodes = EmptyDict
    /\ relationships = EmptyDict
    /\ nodes_by_label = EmptyDict
    /\ relationships_by_type = EmptyDict
    /\ relationships_by_node = EmptyDict
    /\ nextNode = 1
    /\ nextRel = 1
    /\ frozen = NoStore
    /\ last = Called("init", FALSE, <<>>, {})
    /\ pc = [t \in Threads |-> "idle"]
    /\ lock = 0
    /\ held = 0
    /\ job = [t \in Threads |-> NoJob]
    /\ rset = {}
    /\ pdict = EmptyDict
    /\ copy = NoStore
    /\ handle = NoHandle

\* store.add_nodes(entries)
AddNodes(cap, props) ==
    \E n \in 1..MaxBatch : \E entries \in [1..n -> NodeEntries(props)] :
        /\ nextNode + n - 1 <= cap
        /\ \E r \in {add_nodes(Store, nextNode, entries)} :
              /\ SetStore(r.store)
              /\ nextNode' = r.next
              /\ last' = Called("add_nodes", r.raised, r.ret, {})
        /\ UNCHANGED <<nextRel, frozen, threadVars, objVars>>

\* store.remove_nodes(n_ids)
RemoveNodes(cap) ==
    \E n_ids \in SUBSET (1..cap) :
        /\ n_ids # {}
        /\ \E s \in {remove_nodes(Store, n_ids)} :
              /\ SetStore(s)
              /\ last' = Called("remove_nodes", FALSE, <<>>,
                                DOMAIN relationships \ DOMAIN s.relationships)
        /\ UNCHANGED <<nextNode, nextRel, frozen, threadVars, objVars>>

\* store.add_relationships([entry])
AddRelationships(cap, ids, props) ==
    \E entry \in RelationshipEntries(ids, props) :
        /\ nextRel <= cap
        /\ \E r \in {add_relationships(Store, nextRel, <<entry>>, <<>>)} :
              /\ SetStore(r.store)
              /\ nextRel' = r.next
              /\ last' = Called("add_relationships", r.raised, r.ret, {})
        /\ UNCHANGED <<nextNode, frozen, threadVars, objVars>>

\* store.remove_relationships(r_ids)
RemoveRelationships(cap) ==
    \E r_ids \in SUBSET (1..cap) :
        /\ r_ids # {}
        /\ \E s \in {remove_relationships(Store, r_ids)} :
              /\ SetStore(s)
              /\ last' = Called("remove_relationships", FALSE, <<>>,
                                DOMAIN relationships \ DOMAIN s.relationships)
        /\ UNCHANGED <<nextNode, nextRel, frozen, threadVars, objVars>>

NextBatch ==
    \/ AddNodes(MaxNodes, BatchProps)
    \/ RemoveNodes(MaxNodes)
    \/ AddRelationships(MaxRels, NodeIds, BatchProps)
    \/ RemoveRelationships(MaxRels)

\* any sequence of the four batch mutations
SpecBatch == Init /\ [][NextBatch]_vars

\* an in-place operation on the label set node_labels(n) returned for a node
\* of the store
LabelEdit ==
    \E n \in DOMAIN nodes :
        \E r \in {ReactiveSet_apply(op, nodes[n].labels, other) :
                      op \in SetOps, other \in SUBSET Labels}
              \cup {ReactiveSet_apply(op, nodes[n].labels, element) :
                      op \in ElementOps \ {"pop"}, element \in Labels}
              \cup {ReactiveSet_pop(nodes[n].labels, element) :
                      element \in IF nodes[n].labels = {} THEN Labels ELSE nodes[n].labels}
              \cup {ReactiveSet_clear(nodes[n].labels)} :
            /\ nodes' = [nodes EXCEPT ![n].labels = r.set]
            /\ nodes_by_label' = run_callbacks(nodes_by_label, n, r.calls)
            /\ last' = Called("labels", r.raised, <<>>, {})
            /\ UNCHANGED <<relationships, relationships_by_type, relationships_by_node,
                           nextNode, nextRel, frozen, threadVars, objVars>>

PropValues == {Null, IntV("0", 1), MapV(<<<<StrV("a"), IntV("0", 1)>>>>), ObjectV}

\* node_properties(n)[key] = value
SetProperty(values) ==
    \E n \in DOMAIN nodes, key \in Keys, value \in values :
        \E r \in {PropertyDict_setitem(nodes[n].properties, key, value)} :
           /\ nodes' = IF r.ok THEN [nodes EXCEPT ![n].properties = r.val] ELSE nodes
           /\ last' = Called("set_property", ~r.ok, <<>>, {})
           /\ UNCHANGED <<relationships, nodes_by_label, relationships_by_type,
                          relationships_by_node, nextNode, nextRel, frozen, threadVars, objVars>>

\* f = FrozenGraphStore(store)
Snapshot ==
    \E r \in {FrozenGraphStore(Store)} :
       /\ frozen' = IF r.ok THEN r.val ELSE frozen
       /\ last' = Called("snapshot", ~r.ok, <<>>, {})
       /\ UNCHANGED <<storeVars, nextNode, nextRel, threadVars, objVars>>

Next ==
    \/ AddNodes(MaxNodes, AllProps)
    \/ RemoveNodes(MaxNodes)
    \/ AddRelationships(SnapRels, 1..SnapNodes, {NoProps})
    \/ RemoveRelationships(SnapRels)
    \/ LabelEdit
    \/ SetProperty(PropValues)

\* one mutable store under its whole surface: batch mutations, edits of the
\* label sets it hands out, edits of the property maps it hands out
Spec == Init /\ [][Next]_vars

NextFrozen ==
    \/ AddNodes(SnapNodes, SnapProps)
    \/ RemoveNodes(SnapNodes)
    \/ AddRelationships(SnapRels, 1..SnapNodes, SnapProps)
    \/ RemoveRelationships(SnapRels)
    \/ LabelEdit
    \/ SetProperty(PropValues)
    \/ Snapshot

\* a mutable store and the snapshot FrozenGraphStore took of it
SpecFrozen == Init /\ [][NextFrozen]_vars

\* property arguments and values where two snapshots are compared: 1, 2, True
EqualProps == {NoProps, IntProps}
EqualValues == {Null, IntV("0", 1), IntV("0", 2), BoolV(TRUE)}

NextEqual ==
    \/ AddNodes(SnapNodes, EqualProps)
    \/ RemoveNodes(SnapNodes)
    \/ AddRelationships(SnapRels, 1..SnapNodes, EqualProps)
    \/ RemoveRelationships(SnapRels)
    \/ LabelEdit
    \/ SetProperty(EqualValues)
    \/ Snapshot

\* a snapshot of a store, and the store as it goes on: a second snapshot of
\* it is compared with the first
SpecEqual == Init /\ [][NextEqual]_vars

\* ids = store.add_nodes(entries), the entries kept beside the ids
AddNodesCall(cap, props) ==
    \E n \in 1..MaxBatch : \E entries \in [1..n -> NodeEntries(props)] :
        /\ nextNode + n - 1 <= cap
        /\ \E r \in {add_nodes(Store, nextNode, entries)} :
              /\ SetStore(r.store)
              /\ nextNode' = r.next
              /\ last' = [op |-> "add_nodes", raised |-> r.raised, ret |-> r.ret,
                          gone |-> {}, arg |-> entries]
        /\ UNCHANGED <<nextRel, frozen, threadVars, objVars>>

\* ids = store.add_relationships(entries), the entries kept beside the ids
AddRelationshipsCall(cap, ids, props) ==
    \E n \in 1..MaxBatch : \E entries \in [1..n -> RelationshipEntries(ids, props)] :
        /\ nextRel + n - 1 <= cap
        /\ \E r \in {add_relationships(Store, nextRel, entries, <<>>)} :
              /\ SetStore(r.store)
              /\ nextRel' = r.next
              /\ last' = [op |-> "add_relationships", raised |-> r.raised, ret |-> r.ret,
                          gone |-> {}, arg |-> entries]
        /\ UNCHANGED <<nextNode, frozen, threadVars, objVars>>

NextIds ==
    \/ AddNodesCall(MaxNodes + 1, BatchProps)
    \/ RemoveNodes(MaxNodes + 1)
    \/ AddRelationshipsCall(MaxRels, 1..SnapNodes, {NoProps})
    \/ RemoveRelationships(MaxRels)

\* batches of nodes and of relationships added and removed, each call of
\* add_nodes and add_relationships with its entries and the ids it returned
SpecIds == Init /\ [][NextIds]_vars

\* the store behind c: its own dicts, or those of the store it shares
CopyStore == IF copy.shared THEN Store ELSE copy.store

\* the dicts of c after a call on c
SetCopy(s) ==
    IF copy.shared
    THEN SetStore(s) /\ copy' = copy
    ELSE copy' = [copy EXCEPT !.store = s] /\ UNCHANGED storeVars

\* c = MutableGraphStore(store)
MakeCopy ==
    /\ copy' = MutableGraphStore_copy(Store)
    /\ last' = Called("MutableGraphStore", FALSE, <<"mutable">>, {})
    /\ UNCHANGED <<storeVars, nextNode, nextRel, frozen, threadVars, rset, pdict, handle>>

\* c.add_nodes(entries)
CopyAddNodes(cap, props) ==
    /\ copy # NoStore
    /\ \E n \in 1..MaxBatch : \E entries \in [1..n -> NodeEntries(props)] :
          /\ nextNode + n - 1 <= cap
          /\ \E r \in {add_nodes(CopyStore, nextNode, entries)} :
                /\ SetCopy(r.store)
                /\ nextNode' = r.next
                /\ last' = Called("copy_add_nodes", r.raised, r.ret, {})
    /\ UNCHANGED <<nextRel, frozen, threadVars, rset, pdict, handle>>

\* c.remove_nodes(n_ids)
CopyRemoveNodes(cap) ==
    /\ copy # NoStore
    /\ \E n_ids \in SUBSET (1..cap) :
          /\ n_ids # {}
          /\ \E s \in {remove_nodes(CopyStore, n_ids)} :
                /\ SetCopy(s)
                /\ last' = Called("copy_remove_nodes", FALSE, <<>>,
                                  DOMAIN CopyStore.relationships \ DOMAIN s.relationships)
    /\ UNCHANGED <<nextNode, nextRel, frozen, threadVars, rset, pdict, handle>>

\* an operation on the label set c.node_labels(n)
CopyLabelEdit ==
    /\ copy # NoStore
    /\ \E n \in DOMAIN CopyStore.nodes :
          \E r \in {ReactiveSet_apply(op, CopyStore.nodes[n].labels, other) :
                        op \in SetOps, other \in SUBSET Labels}
                \cup {ReactiveSet_apply(op, CopyStore.nodes[n].labels, element) :
                        op \in ElementOps \ {"pop"}, element \in Labels}
                \cup {ReactiveSet_pop(CopyStore.nodes[n].labels, element) :
                        element \in IF CopyStore.nodes[n].labels = {} THEN Labels
                                    ELSE CopyStore.nodes[n].labels}
                \cup {ReactiveSet_clear(CopyStore.nodes[n].labels)} :
              /\ SetCopy([CopyStore EXCEPT
                             !.nodes[n].labels = r.set,
                             !.nodes_by_label = run_callbacks(@, n, r.calls)])
              /\ last' = Called("copy_labels", r.raised, <<>>, {})
    /\ UNCHANGED <<nextNode, nextRel, frozen, threadVars, rset, pdict, handle>>

\* c.node_properties(n)[key] = value
CopySetProperty(values) ==
    /\ copy # NoStore
    /\ \E n \in DOMAIN CopyStore.nodes, key \in Keys, value \in values :
          \E r \in {PropertyDict_setitem(CopyStore.nodes[n].properties, key, value)} :
             /\ SetCopy(IF r.ok THEN [CopyStore EXCEPT !.nodes[n].properties = r.val]
                        ELSE CopyStore)
             /\ last' = Called("copy_set_property", ~r.ok, <<>>, {})
    /\ UNCHANGED <<nextNode, nextRel, frozen, threadVars, rset, pdict, handle>>

\* c.node_properties(n).setdefault(key, default)
CopySetDefault(values) ==
    /\ copy # NoStore
    /\ \E n \in DOMAIN CopyStore.nodes, key \in Keys, default \in values :
          \E r \in {PropertyDict_setdefault(CopyStore.nodes[n].properties, key, default)} :
             /\ SetCopy([CopyStore EXCEPT !.nodes[n].properties = r.dict])
             /\ last' = Called("copy_setdefault", FALSE, <<>>, {})
    /\ UNCHANGED <<nextNode, nextRel, frozen, threadVars, rset, pdict, handle>>

\* m.update(c)
UpdateFromCopy ==
    /\ copy # NoStore
    /\ \E r \in {MutableGraphStore_update(Store, MutableArg(CopyStore))} :
          /\ SetStore(r.store)
          /\ last' = Called("update", r.raised, <<"copy">>, {})
    /\ UNCHANGED <<nextNode, nextRel, frozen, threadVars, objVars>>

\* the defaults given to setdefault on a property map of a store
DefaultValues == {IntV("0", 2), BytesV("x")}

NextUpdate ==
    \/ AddNodes(SnapNodes, {NoProps})
    \/ AddRelationships(SnapRels, 1..SnapNodes, {NoProps})
    \/ LabelEdit
    \/ MakeCopy
    \/ CopyAddNodes(SnapNodes, {NoProps})
    \/ CopySetDefault(DefaultValues)
    \/ UpdateFromCopy

\* a mutable store m and a second one c, constructed from m and edited, that
\* m is then updated from
SpecUpdate == Init /\ [][NextUpdate]_vars

\* the values assigned where a store and its copy are edited
CopyValues == {Null, IntV("0", 1)}

NextCopy ==
    \/ AddNodes(SnapNodes, EqualProps)
    \/ RemoveNodes(SnapNodes)
    \/ LabelEdit
    \/ SetProperty(CopyValues)
    \/ MakeCopy
    \/ CopyAddNodes(MaxNodes, {NoProps})
    \/ CopyRemoveNodes(MaxNodes)
    \/ CopyLabelEdit
    \/ CopySetProperty(CopyValues)

\* a mutable store and the MutableGraphStore constructed from it, both edited
SpecCopy == Init /\ [][NextCopy]_vars

\* the stores a constructor or update may be given now
StoreArgs ==
    {MutableArg(Store)} \cup (IF frozen = NoStore THEN {} ELSE {FrozenArg(frozen)})

\* f = FrozenGraphStore(x); f stays what it was when the constructor raises
NewFrozen ==
    \E arg \in {NoneArg, NotAStore} \cup StoreArgs :
        \E r \in {FrozenGraphStore_init(arg)} :
            /\ frozen' = IF r.ok THEN r.val ELSE frozen
            /\ last' = Called("FrozenGraphStore", ~r.ok, <<arg.kind>>, {})
            /\ UNCHANGED <<storeVars, nextNode, nextRel, threadVars, objVars>>

\* m = MutableGraphStore(x); m stays what it was when the constructor raises
NewMutable ==
    \E arg \in {NoneArg, NotAStore} \cup StoreArgs :
        \E r \in {MutableGraphStore_init(arg)} :
            /\ IF r.raised THEN UNCHANGED storeVars ELSE SetStore(r.store)
            /\ last' = Called("MutableGraphStore", r.raised, <<arg.kind>>, {})
            /\ UNCHANGED <<nextNode, nextRel, frozen, threadVars, objVars>>

\* m.update(x)
UpdateFrom ==
    \E arg \in {NotAStore} \cup StoreArgs :
        \E r \in {MutableGraphStore_update(Store, arg)} :
            /\ SetStore(r.store)
            /\ last' = Called("update", r.raised, <<arg.kind>>, {})
            /\ UNCHANGED <<nextNode, nextRel, frozen, threadVars, objVars>>

\* Node.view(f, n)[key] = value
NodeSetItem ==
    /\ frozen # NoStore
    /\ \E n \in 1..SnapNodes : \E key \in Keys : \E value \in EqualValues :
          \E r \in {Node_setitem(frozen, n, key, value)} :
              /\ frozen' = r.store
              /\ last' = Called("node_setitem", r.raised, <<r.err>>, {})
    /\ UNCHANGED <<storeVars, nextNode, nextRel, threadVars, objVars>>

\* del Node.view(f, n)[key]
NodeDelItem ==
    /\ frozen # NoStore
    /\ \E n \in 1..SnapNodes : \E key \in Keys :
          \E r \in {Node_delitem(frozen, n, key)} :
              /\ frozen' = r.store
              /\ last' = Called("node_delitem", r.raised, <<r.err>>, {})
    /\ UNCHANGED <<storeVars, nextNode, nextRel, threadVars, objVars>>

NextBuild ==
    \/ AddNodes(SnapNodes, EqualProps)
    \/ RemoveNodes(SnapNodes)
    \/ AddRelationships(SnapRels, 1..SnapNodes, {NoProps})
    \/ LabelEdit
    \/ NewFrozen
    \/ NewMutable
    \/ UpdateFrom
    \/ NodeSetItem
    \/ NodeDelItem

\* a mutable store m and a frozen store f, each constructed from None, from a
\* store or from something else, m updated from f, and the properties of the
\* nodes of f assigned and deleted through the Node facade
SpecBuild == Init /\ [][NextBuild]_vars

NextQuery ==
    \/ AddRelationships(MaxRels, 1..QueryIds, {NoProps})
    \/ RemoveRelationships(MaxRels)

\* the stores that relationships of every arity over QueryIds ids give
SpecQuery == Init /\ [][NextQuery]_vars

----------------------------------------------------------------------------
(* Threads on one store.  self._lock is an RLock: lock is the thread that   *)
(* owns it (0 for none), held its recursion count.  What a method does      *)
(* inside "with self._lock" is one step; what it does before is another.    *)

\* thread t calls a batch method
Call(t) ==
    /\ pc[t] = "idle"
    /\ \/ \E entry \in NodeEntries({NoProps}) :
            /\ nextNode + Cardinality({u \in Threads : pc[u] = "loop"}) <= ConcNodes
            /\ job' = [job EXCEPT ![t] = Job("add_nodes", <<entry>>)]
            /\ pc' = [pc EXCEPT ![t] = "loop"]
       \/ \E n_ids \in SUBSET (1..ConcNodes) \ {{}} :
            /\ job' = [job EXCEPT ![t] = Job("remove_nodes", n_ids)]
            /\ pc' = [pc EXCEPT ![t] = "with"]
       \/ \E entry \in RelationshipEntries(1..ConcNodes, {NoProps}) :
            /\ nextRel + Cardinality({u \in Threads : job[u].m = "add_relationships"})
                   <= ConcRels
            /\ job' = [job EXCEPT ![t] = Job("add_relationships", <<entry>>)]
            /\ pc' = [pc EXCEPT ![t] = "with"]
       \/ \E r_ids \in SUBSET (1..ConcRels) \ {{}} :
            /\ job' = [job EXCEPT ![t] = Job("remove_relationships", r_ids)]
            /\ pc' = [pc EXCEPT ![t] = "with"]
    /\ UNCHANGED <<storeVars, nextNode, nextRel, frozen, last, lock, held, objVars>>

\* add_nodes, lines 515-524: the loop over the entries, which runs before the
\* lock is taken; node_entry writes the label index of the store
AddNodesLoop(t) ==
    /\ pc[t] = "loop"
    /\ \E b \in {add_nodes_loop(nodes_by_label, nextNode, job[t].arg, <<>>)} :
          /\ nodes_by_label' = b.nodes_by_label
          /\ nextNode' = b.next
          /\ job' = [job EXCEPT ![t].built = b.built]
          /\ pc' = [pc EXCEPT ![t] = IF b.raised THEN "idle" ELSE "with"]
    /\ UNCHANGED <<nodes, relationships, relationships_by_type, relationships_by_node,
                   nextRel, frozen, last, lock, held, objVars>>

\* with self._lock: the lock is free, or this thread owns it
Acquire(t) ==
    /\ pc[t] = "with"
    /\ lock \in {0, t}
    /\ lock' = t
    /\ held' = held + 1
    /\ pc' = [pc EXCEPT ![t] = "locked"]
    /\ UNCHANGED <<storeVars, nextNode, nextRel, frozen, last, job, objVars>>

\* what the body of "with self._lock" of the method of job j does to store s
locked_body(s, next, j) ==
    CASE j.m = "add_nodes" ->
           [store |-> add_nodes_commit(s, j.built), next |-> next,
            ret |-> [i \in DOMAIN j.built |-> j.built[i][1]]]
      [] j.m = "remove_nodes" ->
           [store |-> remove_nodes(s, j.arg), next |-> next, ret |-> <<>>]
      [] j.m = "add_relationships" ->
           add_relationships(s, next, j.arg, <<>>)
      [] OTHER ->
           [store |-> remove_relationships(s, j.arg), next |-> next, ret |-> <<>>]

\* the body of "with self._lock" of the method thread t is in, and the release
Locked(t) ==
    /\ pc[t] = "locked"
    /\ lock = t
    /\ \E r \in {locked_body(Store, nextRel, job[t])} :
          /\ SetStore(r.store)
          /\ nextRel' = r.next
          /\ last' = Called(job[t].m, FALSE, r.ret,
                            DOMAIN relationships \ DOMAIN r.store.relationships)
    /\ held' = held - 1
    /\ lock' = IF held = 1 THEN 0 ELSE t
    /\ pc' = [pc EXCEPT ![t] = "idle"]
    /\ job' = [job EXCEPT ![t] = NoJob]
    /\ UNCHANGED <<nextNode, frozen, objVars>>

NextConc ==
    \E t \in Threads :
        \/ Call(t)
        \/ AddNodesLoop(t)
        \/ Acquire(t)
        \/ Locked(t)

\* threads that call the batch methods of one store, in any interleaving
SpecConc == Init /\ [][NextConc]_vars

----------------------------------------------------------------------------
(* add_relationships line by line, and reads beside it.  The reads of        *)
(* GraphStore take no lock.                                                   *)

\* thread t calls add_relationships([entry])
CallAdd(t) ==
    /\ pc[t] = "idle"
    /\ nextRel + Cardinality({u \in Threads : pc[u] \in {"with", "555"}}) <= MaxRels
    /\ \E entry \in RelationshipEntries(1..ConcNodes, {NoProps}) :
          job' = [job EXCEPT ![t] = Job("add_relationships", <<entry>>)]
    /\ pc' = [pc EXCEPT ![t] = "with"]
    /\ UNCHANGED <<storeVars, nextNode, nextRel, frozen, last, lock, held, objVars>>

\* line 551, with self._lock: the lock is free, or this thread owns it
Enter(t) ==
    /\ pc[t] = "with"
    /\ lock \in {0, t}
    /\ lock' = t
    /\ held' = held + 1
    /\ pc' = [pc EXCEPT ![t] = "555"]
    /\ UNCHANGED <<storeVars, nextNode, nextRel, frozen, last, job, objVars>>

\* lines 553-555: a new id, the entry, and the entry into the relationships map
StoreEntry(t) ==
    /\ pc[t] = "555"
    /\ relationships' = DictSet(relationships, nextRel,
                                relationship_entry(job[t].arg[1]).entry)
    /\ job' = [job EXCEPT ![t].built = <<nextRel>>]
    /\ nextRel' = nextRel + 1
    /\ pc' = [pc EXCEPT ![t] = "556"]
    /\ UNCHANGED <<nodes, nodes_by_label, relationships_by_type, relationships_by_node,
                   nextNode, frozen, last, lock, held, objVars>>

\* line 556: the id into the bucket of its type
IndexType(t) ==
    /\ pc[t] = "556"
    /\ relationships_by_type' =
           DictSet(relationships_by_type, job[t].arg[1].type,
                   DictGet(relationships_by_type, job[t].arg[1].type, {})
                       \cup {job[t].built[1]})
    /\ pc' = [pc EXCEPT ![t] = "557"]
    /\ UNCHANGED <<nodes, nodes_by_label, relationships, relationships_by_node,
                   nextNode, nextRel, frozen, last, lock, held, job, objVars>>

\* lines 557-560: the id into the bucket of every endpoint, the end of the
\* with block, the return
IndexNodes(t) ==
    /\ pc[t] = "557"
    /\ relationships_by_node' =
           index_roles(relationships_by_node, job[t].built[1],
                       enumerate_nodes(job[t].arg[1].nodes))
    /\ last' = Called("add_relationships", FALSE, job[t].built, {})
    /\ held' = held - 1
    /\ lock' = IF held = 1 THEN 0 ELSE t
    /\ pc' = [pc EXCEPT ![t] = "idle"]
    /\ job' = [job EXCEPT ![t] = NoJob]
    /\ UNCHANGED <<nodes, nodes_by_label, relationships, relationships_by_type,
                   nextNode, nextRel, frozen, objVars>>

\* thread t, in no call of its own, asks for relationship r three ways: among
\* all relationships, among those of type r_type, among those at node n
Read(t) ==
    /\ pc[t] = "idle"
    /\ \E r \in 1..MaxRels, r_type \in Types, n \in 1..ConcNodes :
          last' = Called("read", FALSE,
                         <<r, r_type, n,
                           r \in store_relationships(Store, NoType, SeqArg(<<>>)).val,
                           r \in store_relationships(Store, r_type, SeqArg(<<>>)).val,
                           r \in store_relationships(Store, NoType, SetArg({n})).val>>,
                         {})
    /\ UNCHANGED <<storeVars, nextNode, nextRel, frozen, threadVars, objVars>>

NextSteps ==
    \E t \in Threads :
        \/ CallAdd(t)
        \/ Enter(t)
        \/ StoreEntry(t)
        \/ IndexType(t)
        \/ IndexNodes(t)
        \/ Read(t)

\* threads that add relationships, each line of add_relationships a step, and
\* threads that read meanwhile
SpecSteps == Init /\ [][NextSteps]_vars

----------------------------------------------------------------------------
(* Index consistency and the cascade of remove_nodes, under SpecBatch *)

\* C1: after any sequence of add_nodes, remove_nodes, add_relationships and
\* remove_relationships calls, each of the three indices equals what the
\* _build_* scan of the two primary maps would give.
C1_IndicesMatchScan ==
    /\ nodes_by_label = build_nodes_by_label(nodes)
    /\ relationships_by_type = build_relationships_by_type(relationships)
    /\ relationships_by_node = build_relationships_by_node(relationships)

\* C2: a remove_nodes call removes every relationship that had a removed node
\* among its endpoints: from the relationship map, from its type bucket and
\* from the role entries of all its endpoints, so that relationship_type,
\* relationship_nodes and relationship_properties give None for it; every
\* other relationship stays as it was.
C2_RemoveNodesCascade ==
    [][last'.op = "remove_nodes" =>
        LET removed == DOMAIN nodes \ DOMAIN nodes'
            touched == {r \in DOMAIN relationships :
                           \E i \in DOMAIN relationships[r].nodes :
                               relationships[r].nodes[i] \in removed}
        IN /\ \A r \in touched :
                /\ r \notin DOMAIN relationships'
                /\ \A t \in DOMAIN relationships_by_type' : r \notin relationships_by_type'[t]
                /\ \A n \in DOMAIN relationships_by_node' :
                       \A p \in relationships_by_node'[n] : p[1] # r
                /\ relationship_type(Store', r) = PyNone
                /\ relationship_nodes(Store', r) = PyNone
                /\ relationship_properties(Store', r) = PyNone
           /\ \A r \in DOMAIN relationships \ touched :
                /\ r \in DOMAIN relationships'
                /\ relationships'[r] = relationships[r]
                /\ r \in relationships_by_type'[relationships[r].type]
                /\ \A i \in DOMAIN relationships[r].nodes :
                       <<r, enumerate_nodes(relationships[r].nodes)[i][1]>>
                           \in relationships_by_node'[relationships[r].nodes[i]]]_vars

\* C2 witness: a remove_nodes call has taken a relationship of a removed node
\* with it, and another relationship is still stored
C2_CascadeHappened ==
    /\ last.op = "remove_nodes"
    /\ last.gone # {}
    /\ DOMAIN relationships # {}

----------------------------------------------------------------------------
(* The endpoint queries, under SpecQuery *)

\* the endpoint arguments asked: NoneId stands for a None position or element
QuerySeqs == UNION {[1..n -> 0..QueryIds] : n \in 0..MaxArity}
QuerySets == SUBSET (0..QueryIds)

\* the label arguments asked of nodes() and node_count(), as the tuple *n_labels
LabelTuples == UNION {[1..n -> Labels] : n \in 0..MaxLabelArgs}

C9_SetQueryExact ==
    \A r_type \in Types \cup {NoType}, q \in QuerySets :
        store_relationships(Store, r_type, SetArg(q)) =
            Ok({r \in DOMAIN relationships :
                   /\ r_type = NoType \/ relationships[r].type = r_type
                   /\ (q \ {NoneId}) \subseteq Range(relationships[r].nodes)})

\* C9 witness: the query for a set of two nodes gives one stored relationship,
\* which has them as its first and middle endpoint, and not the other stored
\* relationship, which has only one of them
C9_TwoNodesAsked ==
    \E r \in DOMAIN relationships, o \in DOMAIN relationships :
        /\ Len(relationships[r].nodes) = 3
        /\ relationships[r].nodes[1] # relationships[r].nodes[2]
        /\ relationships[r].nodes[1] \in Range(relationships[o].nodes)
        /\ relationships[r].nodes[2] \notin Range(relationships[o].nodes)
        /\ store_relationships(Store, NoType,
               SetArg({relationships[r].nodes[1], relationships[r].nodes[2]})) = Ok({r})

\* C10 as stated: for a relationship r of endpoints (A, B, C), the query
\* [A, None, None] gives r, the query [None, None, C] gives r, and the query
\* [None, B, None] does not give r.
C10_MiddleNotMatched ==
    \A r \in DOMAIN relationships :
        Len(relationships[r].nodes) = 3 =>
            LET e == relationships[r].nodes
            IN /\ r \in store_relationships(Store, NoType, SeqArg(<<e[1], NoneId, NoneId>>)).val
               /\ r \in store_relationships(Store, NoType, SeqArg(<<NoneId, NoneId, e[3]>>)).val
               /\ r \notin store_relationships(Store, NoType, SeqArg(<<NoneId, e[2], NoneId>>)).val

\* C10 amended: for a relationship r of endpoints (A, B, C), each of the
\* queries [A, None, None], [None, None, C] and [None, B, None] gives r: B is
\* indexed under role 1, the role of the middle position of the query.
C10_MiddleMatched ==
    \A r \in DOMAIN relationships :
        Len(relationships[r].nodes) = 3 =>
            LET e == relationships[r].nodes
            IN /\ r \in store_relationships(Store, NoType, SeqArg(<<e[1], NoneId, NoneId>>)).val
               /\ r \in store_relationships(Store, NoType, SeqArg(<<NoneId, NoneId, e[3]>>)).val
               /\ r \in store_relationships(Store, NoType, SeqArg(<<NoneId, e[2], NoneId>>)).val

\* C10 witness: a relationship of three distinct endpoints is stored, and the
\* query for its middle node in the middle position gives it
C10_ThreeEndpoints ==
    \E r \in DOMAIN relationships :
        /\ Len(relationships[r].nodes) = 3
        /\ Cardinality(Range(relationships[r].nodes)) = 3
        /\ store_relationships(Store, NoType,
               SeqArg(<<NoneId, relationships[r].nodes[2], NoneId>>)) = Ok({r})

----------------------------------------------------------------------------
(* The lock, under SpecConc *)

\* C3: every batch method reads and writes the two maps and the three indices
\* only while it holds the lock, so a thread that holds the lock finds no
\* batch of another thread half applied: the label index holds no id that the
\* nodes map lacks, and every index is the scan of its map.
C3_LockHolderSeesWholeBatches ==
    lock # 0 =>
        /\ \A l \in DOMAIN nodes_by_label : nodes_by_label[l] \subseteq DOMAIN nodes
        /\ nodes_by_label = build_nodes_by_label(nodes)
        /\ relationships_by_type = build_relationships_by_type(relationships)
        /\ relationships_by_node = build_relationships_by_node(relationships)

----------------------------------------------------------------------------
(* Label edits, under Spec *)

\* C4: after an operation on the label set node_labels(n) of a node n of the
\* store, nodes(L) gives, for every label L, exactly the nodes whose label set
\* holds L now.
C4_NodesFollowLabelEdits ==
    last.op = "labels" =>
        \A l \in Labels :
            store_nodes(Store, {l}) = {n \in DOMAIN nodes : l \in nodes[n].labels}

\* C5: once a mutation is done no label maps to an empty bucket, so that
\* node_labels() lists only labels some node carries.
C5_NoEmptyBucket ==
    /\ \A l \in DOMAIN nodes_by_label : nodes_by_label[l] # {}
    /\ \A l \in node_labels_all(Store) : store_nodes(Store, {l}) # {}

----------------------------------------------------------------------------
(* The snapshot, under SpecFrozen *)

C7_SnapshotAnswersAlike ==
    LET r == FrozenGraphStore(Store)
        f == View(r.val)
        Seqs == UNION {[1..n -> 0..SnapNodes] : n \in 0..MaxArity}
        Sets == SUBSET (0..SnapNodes)
    IN /\ r.ok
       /\ \A ls \in LabelTuples :
             /\ node_count(f, ls) = node_count(Store, ls)
             /\ store_nodes(f, Range(ls)) = store_nodes(Store, Range(ls))
       /\ node_labels_all(f) = node_labels_all(Store)
       /\ \A n \in 1..SnapNodes : node_labels(f, n) = node_labels(Store, n)
       /\ \A t \in Types \cup {NoType}, q \in Seqs :
             /\ relationship_count(f, t, SeqArg(q)) = relationship_count(Store, t, SeqArg(q))
             /\ store_relationships(f, t, SeqArg(q)) = store_relationships(Store, t, SeqArg(q))
       /\ \A t \in Types \cup {NoType}, q \in Sets :
             /\ relationship_count(f, t, SetArg(q)) = relationship_count(Store, t, SetArg(q))
             /\ store_relationships(f, t, SetArg(q)) = store_relationships(Store, t, SetArg(q))
       /\ relationship_types(f) = relationship_types(Store)
       /\ \A x \in 1..SnapRels :
             /\ relationship_nodes(f, x) = relationship_nodes(Store, x)
             /\ relationship_type(f, x) = relationship_type(Store, x)

----------------------------------------------------------------------------
(* Arguments of relationships() and of the other reads *)

\* C11: relationships() raises TypeError for every endpoints argument that is
\* neither a Sequence nor a Set, whatever its value, and raises nothing for a
\* Sequence or a Set.
C11_TypeErrorForOtherArguments ==
    \A r_type \in Types \cup {NoType} :
        /\ \A truthy \in BOOLEAN, allNone \in BOOLEAN :
               store_relationships(Store, r_type, OtherArg(truthy, allNone))
                   = Err("TypeError")
        /\ \A q \in QuerySeqs : store_relationships(Store, r_type, SeqArg(q)).ok
        /\ \A q \in QuerySets : store_relationships(Store, r_type, SetArg(q)).ok

\* C12: nodes(L1, ..., Lk) gives exactly the nodes whose label set holds every
\* Li, nothing as soon as one Li is carried by no node, and every node when
\* no label is given.
C12_NodesByLabelsExact ==
    \A ls \in LabelTuples :
        /\ store_nodes(Store, Range(ls)) =
               {n \in DOMAIN nodes : Range(ls) \subseteq nodes[n].labels}
        /\ (\E l \in Range(ls) : \A n \in DOMAIN nodes : l \notin nodes[n].labels)
               => store_nodes(Store, Range(ls)) = {}

\* C13: node_count(*labels) is the number of ids nodes(*labels) gives, and
\* relationship_count(type, endpoints) the number of ids
\* relationships(type, endpoints) gives (both raise where one does), for every
\* argument; relationships() with no type and with no endpoints, or endpoints
\* that are all None, gives every relationship.
C13_CountsMatchQueries ==
    LET Seqs == UNION {[1..n -> 0..MaxNodes] : n \in 0..MaxArity}
        Sets == SUBSET (0..MaxNodes)
        Same(t, a) ==
            LET c == relationship_count(Store, t, a)
                r == store_relationships(Store, t, a)
            IN /\ c.ok = r.ok
               /\ c.ok => c.val = Cardinality(r.val)
               /\ ~c.ok => c = r
        All(a) == store_relationships(Store, NoType, a) = Ok(DOMAIN relationships)
    IN /\ \A ls \in LabelTuples :
             node_count(Store, ls) = Cardinality(store_nodes(Store, Range(ls)))
       /\ \A t \in Types \cup {NoType} :
             /\ \A q \in Seqs : Same(t, SeqArg(q))
             /\ \A q \in Sets : Same(t, SetArg(q))
             /\ \A x \in BOOLEAN, y \in BOOLEAN : Same(t, OtherArg(x, y))
       /\ \A q \in Seqs : (\A i \in DOMAIN q : q[i] = NoneId) => All(SeqArg(q))
       /\ \A q \in {{}, {NoneId}} : All(SetArg(q))

\* C13 witness: two nodes carry the one label and one of them a second label,
\* so that the count for both labels is 1; and the count for the type and the
\* first endpoint of the stored relationship is 1, for another type 0
C13_CountsDiffer ==
    /\ \E a \in Labels, b \in Labels :
          /\ node_count(Store, <<a>>) = 2
          /\ node_count(Store, <<a, b>>) = 1
          /\ node_count(Store, <<>>) = 2
    /\ \E r \in DOMAIN relationships, t \in Types :
          /\ Len(relationships[r].nodes) >= 2
          /\ relationship_count(Store, relationships[r].type,
                 SeqArg(<<relationships[r].nodes[1], NoneId>>)) = Ok(1)
          /\ relationship_count(Store, t,
                 SeqArg(<<relationships[r].nodes[1], NoneId>>)) = Ok(0)


\* C14: node_labels, node_properties, relationship_nodes,
\* relationship_properties and relationship_type give None for every id the
\* store does not hold (never handed out, rejected, or removed), on the mutable
\* store and on the snapshot.
C14_UnknownIdGivesNone ==
    LET Unknown(s) ==
            /\ \A n \in (1..(MaxNodes + 1)) \ DOMAIN s.nodes :
                   /\ node_labels(s, n) = PyNone
                   /\ node_properties(s, n) = PyNone
            /\ \A r \in (1..(MaxRels + 1)) \ DOMAIN s.relationships :
                   /\ relationship_nodes(s, r) = PyNone
                   /\ relationship_properties(s, r) = PyNone
                   /\ relationship_type(s, r) = PyNone
    IN /\ Unknown(Store)
       /\ frozen # NoStore => Unknown(Frozen)

\* C14 witness: a node and a relationship were added after the snapshot was
\* taken and remove_nodes has just removed both, so that their ids are
\* unknown to the mutable store (removed) and to the snapshot (never added)
C14_RemovedAndNeverAdded ==
    /\ last.op = "remove_nodes"
    /\ nextNode > 1 /\ 1 \notin DOMAIN nodes
    /\ nextRel > 1 /\ last.gone = {1}
    /\ frozen # NoStore
    /\ DOMAIN frozen.nodes = {} /\ DOMAIN frozen.relationships = {}


\* C15: remove_nodes and remove_relationships skip the ids the store does not
\* hold: a call whose ids are all unknown leaves the two maps and the three
\* indices as they are, and a removal applied twice gives the store that
\* applying it once gives.
C15_RemovalSkipsUnknownIds ==
    /\ \A n_ids \in SUBSET (1..(MaxNodes + 1)) :
          \E once \in {remove_nodes(Store, n_ids)} :
             /\ n_ids \cap DOMAIN nodes = {} => once = Store
             /\ remove_nodes(once, n_ids) = once
    /\ \A r_ids \in SUBSET (1..(MaxRels + 1)) :
          \E once \in {remove_relationships(Store, r_ids)} :
             /\ r_ids \cap DOMAIN relationships = {} => once = Store
             /\ remove_relationships(once, r_ids) = once

\* C15 witness: remove_relationships was called with ids the store does not
\* hold (it removed nothing) on a store that holds a relationship whose first
\* endpoint is not a node of the store, so that remove_nodes of that endpoint
\* is a call with an unknown id on a store it could change
C15_UnknownIdsRemoved ==
    /\ last.op = "remove_relationships"
    /\ last.gone = {}
    /\ \E r \in DOMAIN relationships :
          /\ relationships[r].nodes # <<>>
          /\ relationships[r].nodes[1] \notin DOMAIN nodes
    /\ DOMAIN nodes # {}


----------------------------------------------------------------------------
(* A ReactiveSet of its own: rset is its contents, and its two callbacks     *)
(* record what they are called with.  last is the operation that gave the    *)
(* state: the contents before it (self), its argument, whether it raised,    *)
(* and the callback calls in the order they were made (ret).                  *)

SetCalled(op, arg, r) ==
    [op |-> op, raised |-> r.raised, ret |-> r.calls, gone |-> {},
     self |-> rset, arg |-> arg]

\* the variables of the graph store and of its threads
graphVars == <<storeVars, nextNode, nextRel, frozen, threadVars, copy, handle>>

\* s |= other
Ior ==
    \E other \in SUBSET Elements :
        \E r \in {ReactiveSet_ior(rset, other)} :
            /\ rset' = r.set
            /\ last' = SetCalled("ior", other, r)
            /\ UNCHANGED <<graphVars, pdict>>

\* s &= other
Iand ==
    \E other \in SUBSET Elements :
        \E r \in {ReactiveSet_iand(rset, other)} :
            /\ rset' = r.set
            /\ last' = SetCalled("iand", other, r)
            /\ UNCHANGED <<graphVars, pdict>>

\* s -= other
Isub ==
    \E other \in SUBSET Elements :
        \E r \in {ReactiveSet_isub(rset, other)} :
            /\ rset' = r.set
            /\ last' = SetCalled("isub", other, r)
            /\ UNCHANGED <<graphVars, pdict>>

\* s ^= other
Ixor ==
    \E other \in SUBSET Elements :
        \E r \in {ReactiveSet_ixor(rset, other)} :
            /\ rset' = r.set
            /\ last' = SetCalled("ixor", other, r)
            /\ UNCHANGED <<graphVars, pdict>>

\* s.add(element)
Add ==
    \E element \in Elements :
        \E r \in {ReactiveSet_add(rset, element)} :
            /\ rset' = r.set
            /\ last' = SetCalled("add", element, r)
            /\ UNCHANGED <<graphVars, pdict>>

\* s.remove(element)
Remove ==
    \E element \in Elements :
        \E r \in {ReactiveSet_remove(rset, element)} :
            /\ rset' = r.set
            /\ last' = SetCalled("remove", element, r)
            /\ UNCHANGED <<graphVars, pdict>>

\* s.discard(element)
Discard ==
    \E element \in Elements :
        \E r \in {ReactiveSet_discard(rset, element)} :
            /\ rset' = r.set
            /\ last' = SetCalled("discard", element, r)
            /\ UNCHANGED <<graphVars, pdict>>

\* s.pop(): set.pop takes any one of the elements
Pop ==
    \E element \in IF rset = {} THEN {0} ELSE rset :
        \E r \in {ReactiveSet_pop(rset, element)} :
            /\ rset' = r.set
            /\ last' = SetCalled("pop", <<>>, r)
            /\ UNCHANGED <<graphVars, pdict>>

\* s.clear()
Clear ==
    \E r \in {ReactiveSet_clear(rset)} :
        /\ rset' = r.set
        /\ last' = SetCalled("clear", <<>>, r)
        /\ UNCHANGED <<graphVars, pdict>>

NextSet ==
    \/ Ior
    \/ Iand
    \/ Isub
    \/ Ixor
    \/ Add
    \/ Remove
    \/ Discard
    \/ Pop
    \/ Clear

\* any sequence of the nine mutating operations on one ReactiveSet
SpecSet == Init /\ [][NextSet]_vars

\* the elements the calls of one callback were given
Passed(calls, cb) == UNION {calls[i].elements : i \in {j \in DOMAIN calls : calls[j].cb = cb}}

SetOpNames == SetOps \cup ElementOps \cup {"clear"}

\* C16: after each of the nine mutating operations, on_add has been given
\* exactly the elements that became members and on_remove exactly the
\* elements that ceased to be members.
C16_CallbacksGetExactlyTheChanges ==
    (last.op \in SetOpNames /\ ~last.raised) =>
        /\ Passed(last.ret, "on_add") = rset \ last.self
        /\ Passed(last.ret, "on_remove") = last.self \ rset


\* C17: add of a member and discard of a non-member leave the set as it is
\* and call nothing; remove of a non-member and pop on an empty set raise
\* KeyError, leave the set as it is and call nothing.
C17_NoOpsCallNothing ==
    LET Unchanged == rset = last.self /\ last.ret = <<>>
    IN /\ (last.op = "add" /\ last.arg \in last.self) => (Unchanged /\ ~last.raised)
       /\ (last.op = "discard" /\ last.arg \notin last.self) => (Unchanged /\ ~last.raised)
       /\ (last.op = "remove" /\ last.arg \notin last.self) => (Unchanged /\ last.raised)
       /\ (last.op = "pop" /\ last.self = {}) => (Unchanged /\ last.raised)

\* C17 witness: discard of an element that the set, which holds others, does
\* not hold
C17_DiscardOfAbsent ==
    /\ last.op = "discard"
    /\ last.arg \notin last.self
    /\ last.self # {}


----------------------------------------------------------------------------
(* A PropertyDict of its own (cypy/data/values.py): pdict is its contents.   *)
(* last is the operation that gave the state: the contents before it (self), *)
(* its arguments, whether it raised and what, and what it returned.          *)

DictKeys == {"a", "b"}

HomList == ListV(<<IntV("0", 1), IntV("0", 2)>>)
HetList == ListV(<<IntV("0", 1), StrV("a")>>)
NestedMap == MapV(<<<<StrV("a"), IntV("0", 1)>>>>)

\* values given to a PropertyDict: None, an integer, [1, 2], [1, "a"],
\* {"a": 1}, object()
DictValues == {Null, IntV("0", 1), HomList, HetList, NestedMap, ObjectV}

\* integers around the bounds of the 64-bit range, and a boolean:
\* True, 1, 2^63 - 1, 2^63, -2^63, -2^63 - 1, 2^64, -2^64
IntValues == {BoolV(TRUE), IntV("0", 1), IntV("2^63", -1), IntV("2^63", 0),
              IntV("-2^63", 0), IntV("-2^63", -1), IntV("2^64", 0), IntV("-2^64", 0)}

\* the mappings given to the constructor, with values out of values
DictIterables(values) == UNION {[S -> values] : S \in SUBSET DictKeys}

\* the items of the mappings given to update, in their order
DictItems(values) ==
    {items \in UNION {[1..n -> DictKeys \X values] : n \in 0..MaxItems} :
        \A i \in DOMAIN items, j \in DOMAIN items : i # j => items[i][1] # items[j][1]}

DictCalled(op, arg, err, ret) ==
    [op |-> op, raised |-> err # "", err |-> err, ret |-> ret, gone |-> {},
     self |-> pdict, arg |-> arg]

\* d = PropertyDict(iterable); d stays what it was when the constructor raises
Construct(values) ==
    \E iterable \in DictIterables(values) :
        \E r \in {PropertyDict(iterable)} :
            /\ pdict' = IF r.ok THEN r.val ELSE pdict
            /\ last' = DictCalled("construct", iterable, IF r.ok THEN "" ELSE r.err, Null)
            /\ UNCHANGED <<graphVars, rset>>

\* d[key] = value
SetItem(values) ==
    \E key \in DictKeys, value \in values :
        \E r \in {PropertyDict_setitem(pdict, key, value)} :
            /\ pdict' = IF r.ok THEN r.val ELSE pdict
            /\ last' = DictCalled("setitem", <<key, value>>, IF r.ok THEN "" ELSE r.err, Null)
            /\ UNCHANGED <<graphVars, rset>>

\* d.update(iterable)
Update(values) ==
    \E items \in DictItems(values) :
        \E r \in {PropertyDict_update(pdict, items)} :
            /\ pdict' = r.dict
            /\ last' = DictCalled("update", items, r.err, Null)
            /\ UNCHANGED <<graphVars, rset>>

\* d.setdefault(key, default)
SetDefault(values) ==
    \E key \in DictKeys, default \in values :
        \E r \in {PropertyDict_setdefault(pdict, key, default)} :
            /\ pdict' = r.dict
            /\ last' = DictCalled("setdefault", <<key, default>>, "", r.ret)
            /\ UNCHANGED <<graphVars, rset>>

\* del d[key]
DelItem ==
    \E key \in DictKeys :
        \E r \in {PropertyDict_delitem(pdict, key)} :
            /\ pdict' = IF r.ok THEN r.val ELSE pdict
            /\ last' = DictCalled("delitem", <<key>>, IF r.ok THEN "" ELSE r.err, Null)
            /\ UNCHANGED <<graphVars, rset>>

NextDict ==
    \/ Construct(DictValues)
    \/ SetItem(DictValues)
    \/ Update(DictValues)
    \/ SetDefault(DictValues)
    \/ DelItem

\* any sequence of constructions, item assignments, updates, setdefaults and
\* deletions on one PropertyDict
SpecDict == Init /\ [][NextDict]_vars

NextInt ==
    \/ Construct(IntValues)
    \/ SetItem(IntValues)
    \/ SetDefault(IntValues)
    \/ DelItem

\* one PropertyDict given integers around the bounds of the 64-bit range
SpecInt == Init /\ [][NextInt]_vars

\* C18: no key of a PropertyDict maps to None, whatever was done to it; after
\* d[k] = None, d[k] is None and k is not among the keys, and the rest of the
\* container is as it was.
C18_NoKeyMapsToNull ==
    /\ \A k \in DOMAIN pdict : pdict[k] # Null
    /\ (last.op = "setitem" /\ last.arg[2] = Null) =>
          /\ ~last.raised
          /\ PropertyDict_getitem(pdict, last.arg[1]) = Null
          /\ last.arg[1] \notin DOMAIN pdict
          /\ pdict = DictDel(last.self, last.arg[1])

\* C18 witness: None was assigned to a key the container held, next to
\* another key that it still holds
C18_NullAssignedToPresentKey ==
    /\ last.op = "setitem"
    /\ last.arg[2] = Null
    /\ last.arg[1] \in DOMAIN last.self
    /\ DOMAIN pdict # {}

\* C19: d[k] = None and del d[k] have the same outcome and leave the same
\* contents, for every key, held or not.
C19_NullAssignmentIsDeletion ==
    \A k \in DictKeys :
        PropertyDict_setitem(pdict, k, Null) = PropertyDict_delitem(pdict, k)

\* C20: at construction and on assignment, [1, 2] is accepted and stored,
\* [1, "a"] raises ValueError and {"a": 1} raises TypeError, and a container
\* that rejects is left as it was.
C20_ListAndMapPolicy ==
    LET Given == IF last.op = "construct" THEN Range(last.arg) ELSE {last.arg[2]}
        Given_keys == IF last.op = "construct" THEN DOMAIN last.arg ELSE {last.arg[1]}
        Rejected(err) == last.raised /\ last.err = err /\ pdict = last.self
    IN last.op \in {"construct", "setitem"} =>
          /\ Given = {HomList} =>
                 ~last.raised /\ \A k \in Given_keys : pdict[k] = HomList
          /\ Given = {HetList} => Rejected("ValueError")
          /\ Given = {NestedMap} => Rejected("TypeError")


\* C21: a PropertyDict takes an integer exactly when it is in
\* -2^63 .. 2^63 - 1: it holds no integer outside the range, an assignment or
\* a construction with an integer in the range stores it, one with an integer
\* outside raises ValueError and changes nothing; True is stored as a boolean.
C21_IntegersInRangeOnly ==
    LET Given == IF last.op = "construct" THEN Range(last.arg) ELSE {last.arg[2]}
        Given_keys == IF last.op = "construct" THEN DOMAIN last.arg ELSE {last.arg[1]}
    IN /\ \A k \in DOMAIN pdict : pdict[k].kind = "int" => IntInRange(pdict[k])
       /\ last.op \in {"construct", "setitem"} =>
             \A v \in IntValues :
                Given = {v} =>
                   IF v.kind = "int" /\ ~IntInRange(v)
                   THEN last.raised /\ last.err = "ValueError" /\ pdict = last.self
                   ELSE ~last.raised /\ \A k \in Given_keys : pdict[k] = v


\* C22: setdefault(k, default) on a key the container holds returns its value
\* and changes nothing; on a key it does not hold it returns None and changes
\* nothing when no default (None) is given, and stores the default under k
\* and returns it when one is given.
C22_SetDefaultContract ==
    last.op = "setdefault" =>
        LET k == last.arg[1]
            default == last.arg[2]
        IN /\ ~last.raised
           /\ k \in DOMAIN last.self =>
                 last.ret = last.self[k] /\ pdict = last.self
           /\ (k \notin DOMAIN last.self /\ default = Null) =>
                 last.ret = Null /\ pdict = last.self
           /\ (k \notin DOMAIN last.self /\ default # Null) =>
                 /\ last.ret = default
                 /\ pdict = DictSet(last.self, k, default)
                 /\ PropertyDict_getitem(pdict, k) = default

\* C22 witness: setdefault with a default was called on a key that holds a
\* different value
C22_DefaultForPresentKey ==
    /\ last.op = "setdefault"
    /\ last.arg[1] \in DOMAIN last.self
    /\ last.arg[2] # Null
    /\ last.arg[2] # last.self[last.arg[1]]


\* the keys looked up: the keys properties are stored under, and one more
LookupKeys == Keys \cup {"z"}

\* the property records of the snapshot
FrozenRecords ==
    IF frozen = NoStore THEN {}
    ELSE {frozen.nodes[n].properties : n \in DOMAIN frozen.nodes}
         \cup {frozen.relationships[r].properties : r \in DOMAIN frozen.relationships}

\* C23 (as stated): looking up a key that a PropertyRecord does not have
\* raises KeyError.
C23_UnknownKeyRaises ==
    \A rec \in FrozenRecords, key \in LookupKeys :
        key \notin Range(rec.keys) =>
            Record_getitem_key(PropertyValue, rec, key) = Err("KeyError")

\* C23 (amended): looking up a key that a PropertyRecord does not have gives
\* None; a Record of the same items under the nullable policy raises KeyError.
C23_UnknownKeyGivesNone ==
    \A rec \in FrozenRecords, key \in LookupKeys :
        key \notin Range(rec.keys) =>
            /\ Record_getitem_key(PropertyValue, rec, key) = Ok(Null)
            /\ Record_getitem_key(Value, rec, key) = Err("KeyError")

\* C23 witness: the snapshot holds a node whose record has a key, so that a
\* lookup of another key is a lookup in a record that is not empty
C23_RecordWithAKey ==
    /\ frozen # NoStore
    /\ \E n \in DOMAIN frozen.nodes : frozen.nodes[n].properties.keys # <<>>


\* C24: reading a property key that is not there gives None: from the
\* PropertyDict of a node of the mutable store, and from the PropertyRecord of
\* a node of the snapshot.
C24_AbsentPropertyReadsNone ==
    \A key \in LookupKeys :
        /\ \A n \in DOMAIN nodes :
               key \notin DOMAIN nodes[n].properties =>
                   PropertyDict_getitem(nodes[n].properties, key) = Null
        /\ frozen # NoStore =>
               \A n \in DOMAIN frozen.nodes :
                   key \notin Range(frozen.nodes[n].properties.keys) =>
                       Record_getitem_key(PropertyValue, frozen.nodes[n].properties, key)
                           = Ok(Null)

\* C24 witness: a node has a property in the mutable store and none in the
\* snapshot, or the other way round
C24_PropertyOnOneSideOnly ==
    /\ frozen # NoStore
    /\ \E n \in DOMAIN frozen.nodes \cap DOMAIN nodes :
          DOMAIN nodes[n].properties # Range(frozen.nodes[n].properties.keys)


\* C25: of two frozen stores, the snapshot taken earlier and one taken now:
\* if their nodes maps and their relationships maps are the same they compare
\* equal and hash alike; if some labels, properties, type or endpoints differ
\* they compare unequal.
C25_EqualityAndHash ==
    frozen # NoStore =>
        \A r \in {FrozenGraphStore(Store)} :
            r.ok =>
                \E f \in {Frozen}, g \in {View(r.val)} :
                    IF f.nodes = g.nodes /\ f.relationships = g.relationships
                    THEN /\ GraphStore_eq(f, g) /\ GraphStore_eq(g, f)
                         /\ GraphStore_hash(f) = GraphStore_hash(g)
                    ELSE ~GraphStore_eq(f, g) /\ ~GraphStore_eq(g, f)


\* C26: FrozenGraphStore(x) and MutableGraphStore(x) raise TypeError for an x
\* that is neither None nor a store and do not raise otherwise; update(x)
\* raises TypeError for an x that is not a store and leaves the store as it
\* was; the constructors without argument give a store with no node, no
\* relationship, no label and no type.
C26_OnlyStoresAccepted ==
    [][/\ last'.op \in {"FrozenGraphStore", "MutableGraphStore", "update"} =>
              (last'.raised <=> last'.ret = <<"other">>)
       /\ (last'.op \in {"MutableGraphStore", "update"} /\ last'.ret = <<"other">>) =>
              UNCHANGED storeVars
       /\ (last'.op = "FrozenGraphStore" /\ last'.ret = <<"other">>) => frozen' = frozen
       /\ (last'.op = "MutableGraphStore" /\ last'.ret = <<"none">>) =>
              /\ node_count(Store', <<>>) = 0
              /\ relationship_count(Store', NoType, SeqArg(<<>>)) = Ok(0)
              /\ node_labels_all(Store') = {}
              /\ relationship_types(Store') = {}
       /\ (last'.op = "FrozenGraphStore" /\ last'.ret = <<"none">>) =>
              /\ node_count(Frozen', <<>>) = 0
              /\ relationship_count(Frozen', NoType, SeqArg(<<>>)) = Ok(0)
              /\ node_labels_all(Frozen') = {}
              /\ relationship_types(Frozen') = {}]_vars

\* C26 witness: update was given something that is not a store, and raised,
\* on a store that holds a node and a relationship
C26_UpdateRejected ==
    /\ last.op = "update"
    /\ last.raised
    /\ DOMAIN nodes # {}
    /\ DOMAIN relationships # {}


Reads(s) ==
    [node_count |-> [ls \in LabelTuples |-> node_count(s, ls)],
     nodes |-> [ls \in SUBSET Labels |-> store_nodes(s, ls)],
     node_labels |-> [n \in 1..MaxNodes |-> node_labels(s, n)],
     node_properties |-> [n \in 1..MaxNodes |-> node_properties(s, n)],
     labels |-> node_labels_all(s),
     relationship_count |-> [t \in Types \cup {NoType} |->
                               relationship_count(s, t, SeqArg(<<>>))],
     relationships |-> [t \in Types \cup {NoType} |->
                          store_relationships(s, t, SeqArg(<<>>))],
     types |-> relationship_types(s),
     relationship_nodes |-> [x \in 1..MaxRels |-> relationship_nodes(s, x)],
     relationship_type |-> [x \in 1..MaxRels |-> relationship_type(s, x)],
     relationship_properties |-> [x \in 1..MaxRels |-> relationship_properties(s, x)]]

CopyOps == {"copy_add_nodes", "copy_remove_nodes", "copy_labels", "copy_set_property"}

SourceOps == {"add_nodes", "remove_nodes", "add_relationships", "labels", "set_property"}

C30_UpdateMerges ==
    [][(last'.op = "update" /\ ~last'.raised) =>
          \E arg \in {IF last'.ret = <<"frozen">> THEN FrozenArg(frozen)
                      ELSE IF last'.ret = <<"copy">> THEN MutableArg(CopyStore)
                      ELSE MutableArg(Store)} :
             /\ DOMAIN nodes' = DOMAIN nodes \cup DOMAIN ArgNodes(arg)
             /\ DOMAIN relationships' = DOMAIN relationships \cup DOMAIN ArgRelationships(arg)
             /\ \A n \in DOMAIN ArgNodes(arg) :
                   /\ nodes'[n].labels = ArgNodes(arg)[n].labels
                   /\ nodes'[n].properties = ArgNodes(arg)[n].properties
             /\ \A r \in DOMAIN ArgRelationships(arg) :
                   /\ relationships'[r].type = ArgRelationships(arg)[r].type
                   /\ relationships'[r].nodes = ArgRelationships(arg)[r].nodes
                   /\ relationships'[r].properties = ArgRelationships(arg)[r].properties
             /\ \A n \in DOMAIN nodes \ DOMAIN ArgNodes(arg) : nodes'[n] = nodes[n]
             /\ \A r \in DOMAIN relationships \ DOMAIN ArgRelationships(arg) :
                   relationships'[r] = relationships[r]
             /\ frozen' = frozen
             /\ copy' = copy
             /\ last'.ret = <<"mutable">> => Store' = Store]_vars


\* the three indices of a store, given its two maps, are what a scan of the
\* maps gives
IndicesMatch(ns, rs, s) ==
    /\ s.nodes_by_label = build_nodes_by_label(ns)
    /\ s.relationships_by_type = build_relationships_by_type(rs)
    /\ s.relationships_by_node = build_relationships_by_node(rs)

\* C31: when m.update(other) completes, on an m and an other whose indices
\* matched a scan of their maps, the indices of m match a scan of its maps,
\* also when other holds an id of m with other labels, type or endpoints.
C31_UpdateKeepsIndices ==
    [][(/\ last'.op = "update"
        /\ ~last'.raised
        /\ last'.ret = <<"frozen">>
        /\ IndicesMatch(nodes, relationships, Store)
        /\ IndicesMatch(ArgNodes(FrozenArg(frozen)), ArgRelationships(FrozenArg(frozen)),
                        frozen))
          => IndicesMatch(nodes', relationships', Store')]_vars


\* C32: every relationship with at least one endpoint has its first endpoint
\* indexed under role 0 and its last endpoint under role LAST, and a sequence
\* query that names the first endpoint in its first position, and no other
\* node, finds it.
C32_FirstEndpointIsRoleZero ==
    \A r \in DOMAIN relationships :
        Len(relationships[r].nodes) >= 1 =>
            /\ <<r, 0>> \in DictGet(relationships_by_node, relationships[r].nodes[1], {})
            /\ <<r, LAST>> \in DictGet(relationships_by_node,
                                       relationships[r].nodes[Len(relationships[r].nodes)], {})
            /\ \A n \in 1..MaxArity :
                  r \in store_relationships(
                           Store, NoType,
                           SeqArg([i \in 1..n |-> IF i = 1 THEN relationships[r].nodes[1]
                                                  ELSE NoneId])).val


\* the entries of a batch before the first one whose properties are refused
AppliedPrefix(entries) ==
    SubSeq(entries, 1,
           Min({i \in DOMAIN entries : ~PropertyDict(entries[i].properties).ok}) - 1)

\* C33: when add_nodes or add_relationships raises at entry k, the maps and
\* the indices are those that adding the entries before k gives, entry k is
\* in none of them, and the lock is free.
C33_RaisingBatchKeepsPrefix ==
    [][/\ (last'.op = "add_nodes" /\ last'.raised) =>
              /\ Store' = add_nodes(Store, nextNode, AppliedPrefix(last'.arg)).store
              /\ lock' = 0
       /\ (last'.op = "add_relationships" /\ last'.raised) =>
              /\ Store' = add_relationships(Store, nextRel, AppliedPrefix(last'.arg),
                                            <<>>).store
              /\ lock' = 0]_vars


\* C34: a read takes no lock and may run while add_relationships holds it;
\* whenever no add_relationships is in progress, every relationship of the
\* map is found under its type and at each of its endpoints, and the indices
\* hold nothing else.
C34_NoPartialBatchWhenIdle ==
    lock = 0 =>
        /\ relationships_by_type = build_relationships_by_type(relationships)
        /\ relationships_by_node = build_relationships_by_node(relationships)
        /\ \A r \in DOMAIN relationships :
              /\ r \in store_relationships(Store, relationships[r].type, SeqArg(<<>>)).val
              /\ \A n \in Range(relationships[r].nodes) :
                    r \in store_relationships(Store, NoType, SetArg({n})).val

\* C34 witness: while another thread held the lock in add_relationships, a
\* read found a relationship in the map and under its type and did not find
\* it at its endpoint
C34_ReadSawHalfABatch ==
    /\ last.op = "read"
    /\ lock # 0
    /\ last.ret[1] \in DOMAIN relationships
    /\ last.ret[2] = relationships[last.ret[1]].type
    /\ last.ret[3] \in Range(relationships[last.ret[1]].nodes)
    /\ last.ret[4]
    /\ last.ret[5]
    /\ ~last.ret[6]

----------------------------------------------------------------------------
\* C35: after any sequence of PropertyDict operations (construct, item
\* assignment, update, setdefault, delete) no stored value is null, a map or
\* a list whose items are of different types, and every stored integer lies
\* in [-2^63, 2^63).
C35_StoredValuesPassPolicy ==
    \A k \in DOMAIN pdict :
       LET v == pdict[k]
       IN /\ v.kind \notin {"null", "map"}
          /\ v.kind = "list" => \A i, j \in DOMAIN v.v : TypeOf(v.v[i]) = TypeOf(v.v[j])
          /\ v.kind = "int" => IntInRange(v)

----------------------------------------------------------------------------
(* A label set kept across the removal of its node *)

\* labels = store.node_labels(n); store.remove_nodes([n]): the caller keeps the
\* ReactiveSet of n, whose callbacks node_entry bound to the store and to n
RemoveHeld ==
    \E n \in DOMAIN nodes :
        /\ handle' = [key |-> n, labels |-> node_labels(Store, n)[1]]
        /\ \E s \in {remove_nodes(Store, {n})} :
              /\ SetStore(s)
              /\ last' = Called("remove_nodes", FALSE, <<>>,
                                DOMAIN relationships \ DOMAIN s.relationships)
        /\ UNCHANGED <<nextNode, nextRel, frozen, threadVars, rset, pdict, copy>>

\* an in-place operation on the label set kept from a node that was removed
StaleEdit ==
    /\ handle # NoHandle
    /\ \E r \in {ReactiveSet_apply(op, handle.labels, other) :
                     op \in SetOps, other \in SUBSET Labels}
             \cup {ReactiveSet_apply(op, handle.labels, element) :
                     op \in ElementOps \ {"pop"}, element \in Labels}
             \cup {ReactiveSet_pop(handle.labels, element) :
                     element \in IF handle.labels = {} THEN Labels ELSE handle.labels}
             \cup {ReactiveSet_clear(handle.labels)} :
          /\ handle' = [handle EXCEPT !.labels = r.set]
          /\ nodes_by_label' = run_callbacks(nodes_by_label, handle.key, r.calls)
          /\ last' = Called("stale", r.raised, <<>>, {})
    /\ UNCHANGED <<nodes, relationships, relationships_by_type, relationships_by_node,
                   nextNode, nextRel, frozen, threadVars, rset, pdict, copy>>

NextHandle ==
    \/ AddNodes(MaxNodes, {NoProps})
    \/ LabelEdit
    \/ RemoveHeld
    \/ StaleEdit

\* nodes with properties that coerce, label edits, removals whose caller keeps
\* the label set, and edits of that set afterwards
SpecHandle == Init /\ [][NextHandle]_vars

\* C36: nodes_by_label holds no id that is not a key of the nodes map, also
\* after the label set obtained from node_labels(n) is edited once n has
\* been removed.
C36_IndexHoldsLiveNodesOnly ==
    \A l \in DOMAIN nodes_by_label : nodes_by_label[l] \subseteq DOMAIN nodes

----------------------------------------------------------------------------
(* The in-place methods ReactiveSet inherits from set *)

NamedOps == {"update", "intersection_update", "difference_update",
             "symmetric_difference_update"}

\* ReactiveSet defines the operators |=, &=, -=, ^= and add, remove, discard,
\* pop, clear; the named in-place methods are those of set and call nothing
ReactiveSet_inherited(op, self, other) ==
    CASE op = "update" -> Done(self \cup other, <<>>)
      [] op = "intersection_update" -> Done(self \cap other, <<>>)
      [] op = "difference_update" -> Done(self \ other, <<>>)
      [] OTHER -> Done((self \ other) \cup (other \ self), <<>>)

\* store.node_labels(n).update(other), and the three other named methods
NamedEdit ==
    \E n \in DOMAIN nodes : \E op \in NamedOps, other \in SUBSET Labels :
        \E r \in {ReactiveSet_inherited(op, nodes[n].labels, other)} :
            /\ nodes' = [nodes EXCEPT ![n].labels = r.set]
            /\ nodes_by_label' = run_callbacks(nodes_by_label, n, r.calls)
            /\ last' = Called(op, r.raised, <<>>, {})
            /\ UNCHANGED <<relationships, relationships_by_type, relationships_by_node,
                           nextNode, nextRel, frozen, threadVars, objVars>>

NextNamed ==
    \/ AddNodes(MaxNodes, {NoProps})
    \/ RemoveNodes(MaxNodes)
    \/ LabelEdit
    \/ NamedEdit

\* nodes with properties that coerce, and every in-place operation a label
\* set offers
SpecNamed == Init /\ [][NextNamed]_vars

\* C37: whatever in-place operation changed the labels of a live node, the
\* named methods included, each label's bucket of nodes_by_label holds
\* exactly the nodes whose label set holds the label.
C37_EveryEditReachesTheIndex ==
    \A l \in Labels :
        DictGet(nodes_by_label, l, {}) = {n \in DOMAIN nodes : l \in nodes[n].labels}

----------------------------------------------------------------------------
(* Relationships between nodes of the store only *)

\* store.add_relationships([entry]) with every endpoint a node of the store
AddRelationshipsLive(cap, props) ==
    \E entry \in RelationshipEntries(DOMAIN nodes, props) :
        /\ nextRel <= cap
        /\ \E r \in {add_relationships(Store, nextRel, <<entry>>, <<>>)} :
              /\ SetStore(r.store)
              /\ nextRel' = r.next
              /\ last' = Called("add_relationships", r.raised, r.ret, {})
        /\ UNCHANGED <<nextNode, frozen, threadVars, objVars>>

NextLive ==
    \/ AddNodes(MaxNodes, BatchProps)
    \/ RemoveNodes(MaxNodes)
    \/ AddRelationshipsLive(MaxRels, BatchProps)
    \/ RemoveRelationships(MaxRels)

\* any sequence of the four batch mutations in which relationships are added
\* between nodes the store holds at the time
SpecLive == Init /\ [][NextLive]_vars

\* C38: when relationships are only ever added between nodes of the store,
\* every endpoint of every stored relationship is a key of the nodes map and
\* so is every key of relationships_by_node.
C38_NoDanglingEndpoints ==
    /\ \A r \in DOMAIN relationships : Range(relationships[r].nodes) \subseteq DOMAIN nodes
    /\ DOMAIN relationships_by_node \subseteq DOMAIN nodes

\* remove_nodes took relationships of the removed nodes with it and left
\* another relationship in the store
C38_CascadeLeftOthers ==
    /\ last.op = "remove_nodes"
    /\ last.gone # {}
    /\ \E r \in DOMAIN relationships : relationships[r].nodes # <<>>

----------------------------------------------------------------------------
(* Conversions between the two kinds of store *)

\* g = FrozenGraphStore(MutableGraphStore(f)), of the snapshot f
ThawAndFreeze ==
    /\ frozen # NoStore
    /\ \E m \in {MutableGraphStore_init(FrozenArg(frozen))} :
          \E r \in {IF m.raised THEN Err(m.err)
                    ELSE FrozenGraphStore_init(MutableArg(m.store))} :
             last' = Called("thaw_and_freeze", ~r.ok, IF r.ok THEN <<r.val>> ELSE <<>>, {})
    /\ UNCHANGED <<storeVars, nextNode, nextRel, frozen, threadVars, objVars>>

\* g = FrozenGraphStore(FrozenGraphStore(f)), of the snapshot f
FreezeTwice ==
    /\ frozen # NoStore
    /\ \E h \in {FrozenGraphStore_init(FrozenArg(frozen))} :
          \E r \in {IF h.ok THEN FrozenGraphStore_init(FrozenArg(h.val)) ELSE h} :
             last' = Called("freeze_twice", ~r.ok, IF r.ok THEN <<r.val>> ELSE <<>>, {})
    /\ UNCHANGED <<storeVars, nextNode, nextRel, frozen, threadVars, objVars>>

NextRound ==
    \/ AddNodes(SnapNodes, EqualProps)
    \/ AddRelationships(SnapRels, 1..SnapNodes, {NoProps})
    \/ NamedEdit
    \/ Snapshot
    \/ ThawAndFreeze
    \/ FreezeTwice

\* a store that is filled, with label sets edited by the named in-place
\* methods, a snapshot f of it, and the conversions of f to the other kind
\* and back
SpecRound == Init /\ [][NextRound]_vars

\* the read queries of a store with relationships looked up by endpoints too
ReadsByNode(s) ==
    [sequences |-> [t \in Types \cup {NoType} |->
                      [q \in UNION {[1..n -> 0..SnapNodes] : n \in 0..MaxArity} |->
                          <<relationship_count(s, t, SeqArg(q)),
                            store_relationships(s, t, SeqArg(q))>>]],
     sets |-> [t \in Types \cup {NoType} |->
                 [q \in SUBSET (0..SnapNodes) |->
                     <<relationship_count(s, t, SetArg(q)),
                       store_relationships(s, t, SetArg(q))>>]]]

\* C39: for the snapshot f, FrozenGraphStore(MutableGraphStore(f)) and
\* FrozenGraphStore(FrozenGraphStore(f)) are constructed, compare equal to f
\* and answer every read query as f does.
C39_RoundTripIsIdentity ==
    last.op \in {"thaw_and_freeze", "freeze_twice"} =>
        /\ ~last.raised
        /\ GraphStore_eq(View(last.ret[1]), Frozen)
        /\ Reads(View(last.ret[1])) = Reads(Frozen)
        /\ ReadsByNode(View(last.ret[1])) = ReadsByNode(Frozen)

----------------------------------------------------------------------------
(* The lock of the batch mutations: self._lock is an RLock, taken by each   *)
(* "with self._lock" and taken again by the remove_relationships that       *)
(* remove_nodes calls from inside its own with block                        *)

LockNodeEntries == [labels : {{}, {"X"}}, properties : BatchProps]
LockRelationshipEntries ==
    [type : {"KNOWS"}, nodes : {<<1>>, <<1, 2>>}, properties : BatchProps]

\* a thread calls one of the four batch methods; the ids of a removal are
\* kept as the one item [ids |-> ...] of the argument
Invoke(t) ==
    /\ pc[t] = "idle"
    /\ \/ \E entry \in LockNodeEntries :
            /\ nextNode + Cardinality({u \in Threads : pc[u] = "loop"}) <= ConcNodes
            /\ job' = [job EXCEPT ![t] = Job("add_nodes", <<entry>>)]
            /\ pc' = [pc EXCEPT ![t] = "loop"]
       \/ \E n_ids \in SUBSET (1..ConcNodes) \ {{}} :
            /\ job' = [job EXCEPT ![t] = Job("remove_nodes", <<[ids |-> n_ids]>>)]
            /\ pc' = [pc EXCEPT ![t] = "with"]
       \/ \E entry \in LockRelationshipEntries :
            /\ nextRel + Cardinality({u \in Threads : /\ pc[u] # "idle"
                                                      /\ job[u].m = "add_relationships"})
                   <= ConcRels
            /\ job' = [job EXCEPT ![t] = Job("add_relationships", <<entry>>)]
            /\ pc' = [pc EXCEPT ![t] = "with"]
       \/ \E r_ids \in SUBSET (1..ConcRels) \ {{}} :
            /\ job' = [job EXCEPT ![t] = Job("remove_relationships", <<[ids |-> r_ids]>>)]
            /\ pc' = [pc EXCEPT ![t] = "with"]
    /\ UNCHANGED <<storeVars, nextNode, nextRel, frozen, last, lock, held, objVars>>

\* the with block of add_nodes, add_relationships or remove_relationships, and
\* its exit, which releases the lock also when the block raised
RunLocked(t) ==
    /\ pc[t] = "locked"
    /\ lock = t
    /\ job[t].m # "remove_nodes"
    /\ \/ /\ job[t].m = "add_nodes"
          /\ SetStore(add_nodes_commit(Store, job[t].built))
          /\ nextRel' = nextRel
          /\ last' = Called("add_nodes", FALSE,
                            [i \in DOMAIN job[t].built |-> job[t].built[i][1]], {})
       \/ /\ job[t].m = "add_relationships"
          /\ \E r \in {add_relationships(Store, nextRel, job[t].arg, <<>>)} :
                /\ SetStore(r.store)
                /\ nextRel' = r.next
                /\ last' = Called("add_relationships", r.raised, r.ret, {})
       \/ /\ job[t].m = "remove_relationships"
          /\ \E s \in {remove_relationships(Store, job[t].arg[1].ids)} :
                /\ SetStore(s)
                /\ nextRel' = nextRel
                /\ last' = Called("remove_relationships", FALSE, <<>>,
                                  DOMAIN relationships \ DOMAIN s.relationships)
    /\ held' = held - 1
    /\ lock' = IF held = 1 THEN 0 ELSE t
    /\ pc' = [pc EXCEPT ![t] = "idle"]
    /\ job' = [job EXCEPT ![t] = NoJob]
    /\ UNCHANGED <<nextNode, frozen, objVars>>

\* remove_nodes, lines 532-547, for the next id of its argument: an id that
\* is no node is skipped; else the node and its labels go, and the call of
\* remove_relationships follows unless the node has no role bucket (KeyError)
Cascade(t) ==
    /\ pc[t] = "locked"
    /\ lock = t
    /\ job[t].m = "remove_nodes"
    /\ job[t].arg[1].ids # {}
    /\ \E n_id \in {Min(job[t].arg[1].ids)} :
          IF n_id \notin DOMAIN nodes
          THEN /\ job' = [job EXCEPT ![t].arg[1].ids = @ \ {n_id}]
               /\ UNCHANGED <<storeVars, pc>>
          ELSE /\ nodes' = DictDel(nodes, n_id)
               /\ nodes_by_label' = discard_labels(nodes_by_label, n_id, nodes[n_id].labels)
               /\ IF n_id \in DOMAIN relationships_by_node
                  THEN /\ job' = [job EXCEPT
                                    ![t].arg[1].ids = @ \ {n_id},
                                    ![t].built =
                                        <<[ids |-> {p[1] : p \in relationships_by_node[n_id]}]>>]
                       /\ pc' = [pc EXCEPT ![t] = "nested"]
                  ELSE /\ job' = [job EXCEPT ![t].arg[1].ids = @ \ {n_id}]
                       /\ pc' = pc
               /\ UNCHANGED <<relationships, relationships_by_type, relationships_by_node>>
    /\ UNCHANGED <<nextNode, nextRel, frozen, last, lock, held, objVars>>

\* a mutation of Reenter for a lock that is not reentrant: its owner waits for
\* it like any other thread
ReenterPlainLock(t) ==
    /\ pc[t] = "nested"
    /\ lock = 0
    /\ lock' = t
    /\ held' = held + 1
    /\ pc' = [pc EXCEPT ![t] = "inner"]
    /\ UNCHANGED <<storeVars, nextNode, nextRel, frozen, last, job, objVars>>

\* "with self._lock" of remove_relationships, line 563, called by remove_nodes
\* from inside its with block: the RLock lets its owner in again
Reenter(t) ==
    /\ pc[t] = "nested"
    /\ lock \in {0, t}
    /\ lock' = t
    /\ held' = held + 1
    /\ pc' = [pc EXCEPT ![t] = "inner"]
    /\ UNCHANGED <<storeVars, nextNode, nextRel, frozen, last, job, objVars>>

\* the body of the remove_relationships that remove_nodes called, and the exit
\* of its with block: the lock stays with remove_nodes
Inner(t) ==
    /\ pc[t] = "inner"
    /\ lock = t
    /\ SetStore(remove_relationships(Store, job[t].built[1].ids))
    /\ held' = held - 1
    /\ lock' = IF held = 1 THEN 0 ELSE t
    /\ pc' = [pc EXCEPT ![t] = "locked"]
    /\ job' = [job EXCEPT ![t].built = <<>>]
    /\ UNCHANGED <<nextNode, nextRel, frozen, last, objVars>>

\* the exit of the with block of remove_nodes, once every id is dealt with
Leave(t) ==
    /\ pc[t] = "locked"
    /\ lock = t
    /\ job[t].m = "remove_nodes"
    /\ job[t].arg[1].ids = {}
    /\ held' = held - 1
    /\ lock' = IF held = 1 THEN 0 ELSE t
    /\ pc' = [pc EXCEPT ![t] = "idle"]
    /\ job' = [job EXCEPT ![t] = NoJob]
    /\ last' = Called("remove_nodes", FALSE, <<>>, {})
    /\ UNCHANGED <<storeVars, nextNode, nextRel, frozen, objVars>>

NextLock ==
    \E t \in Threads :
        \/ Invoke(t)
        \/ AddNodesLoop(t)
        \/ Acquire(t)
        \/ RunLocked(t)
        \/ Cascade(t)
        \/ Reenter(t)
        \/ Inner(t)
        \/ Leave(t)

\* threads calling the batch methods of one store, the lock taken and given
\* back step by step
SpecLock == Init /\ [][NextLock]_vars

\* a thread that can run does run, and a thread waiting for the lock gets it
\* if the lock keeps coming free
SpecLockFair ==
    /\ SpecLock
    /\ \A t \in Threads :
          /\ WF_vars(AddNodesLoop(t))
          /\ SF_vars(Acquire(t))
          /\ WF_vars(RunLocked(t))
          /\ WF_vars(Cascade(t))
          /\ WF_vars(Reenter(t))
          /\ WF_vars(Inner(t))
          /\ WF_vars(Leave(t))

====
